---- MODULE Spec2Model ----
(***************************************************************************)
(* A model of shipper's traffic Pod Label Shifter                          *)
(* (pkg/controller/traffic/pod_label_shifter.go) and of the strategy       *)
(* controller's work loop.                                                 *)
(***************************************************************************)
EXTENDS Integers, Sequences, FiniteSets, TLC

(***************************************************************************)
(* Bounds of the model.                                                    *)
(***************************************************************************)
NumPods == 2
MaxWeight == 2
MaxTarget == 6
MaxTrafficTargets == 2
MaxClusterEntries == 2
Threadiness == 2
MaxEvents == 4

(***************************************************************************)
(* float64 arithmetic.  A positive float64 is [m, e]: m is the 53-bit      *)
(* mantissa, most significant bit first (m[1] = 1), and the value is       *)
(* m * 2^e.  Zero has the empty mantissa.  Every operation rounds to       *)
(* nearest, ties to even, as IEEE 754 binary64 does.  The operands of the  *)
(* program are far from the exponent limits, so there is no overflow,      *)
(* underflow or subnormal here.                                            *)
(***************************************************************************)
MantBits == 53

\* The operations work on Chunk bits at a time.
Chunk == 10

FZero == [m |-> <<>>, e |-> 0]

Pow2(n) == 2^n

\* The n low bits of the natural v, most significant first.
BitsOfWidth(v, n) == [i \in 1..n |-> (v \div Pow2(n - i)) % 2]

BitLen(v) == IF v = 0 THEN 0 ELSE CHOOSE n \in 1..31 : Pow2(n - 1) <= v /\ (n = 31 \/ v < Pow2(n))

BitsOfNat(v) == BitsOfWidth(v, BitLen(v))

\* The natural a bit sequence of at most 30 bits stands for.
RECURSIVE NatOfBits(_)
NatOfBits(bs) ==
    IF Len(bs) = 0 THEN 0
    ELSE 2 * NatOfBits(SubSeq(bs, 1, Len(bs) - 1)) + bs[Len(bs)]

Zeros(n) == [i \in 1..n |-> 0]

HasOne(bs) == \E i \in 1..Len(bs) : bs[i] = 1

StripZeros(bs) ==
    IF ~HasOne(bs) THEN <<>>
    ELSE LET f == CHOOSE i \in 1..Len(bs) : bs[i] = 1 /\ \A j \in 1..(i - 1) : bs[j] = 0
         IN  SubSeq(bs, f, Len(bs))

\* bs + 2^pos, pos counted from the least significant bit (0): the carry
\* runs up to the first 0 bit at or above pos.
AddBitAt(bs, pos) ==
    LET n == Len(bs)
        p == n - pos
    IN  IF p <= 0 THEN <<1>> \o Zeros(-p) \o bs
        ELSE IF \A j \in 1..p : bs[j] = 1
        THEN <<1>> \o [i \in 1..n |-> IF i <= p THEN 0 ELSE bs[i]]
        ELSE LET z == CHOOSE j \in 1..p : bs[j] = 0 /\ \A k \in (j + 1)..p : bs[k] = 1
             IN  [i \in 1..n |-> IF i < z THEN bs[i]
                                 ELSE IF i = z THEN 1
                                 ELSE IF i <= p THEN 0 ELSE bs[i]]

\* The float64 nearest to bs * 2^e (+ something in (0, 2^e) when sticky),
\* bs of any length: round to nearest, ties to even.
RoundBits(bits, e, sticky) ==
    LET bs == StripZeros(bits)
        n == Len(bs)
    IN  IF n = 0 THEN FZero
        ELSE IF n <= MantBits
        THEN [m |-> bs \o Zeros(MantBits - n), e |-> e - (MantBits - n)]
        ELSE LET keep == SubSeq(bs, 1, MantBits)
                 guard == bs[MantBits + 1]
                 rest == sticky \/ HasOne(SubSeq(bs, MantBits + 2, n))
                 up == guard = 1 /\ (rest \/ keep[MantBits] = 1)
                 inc == IF up THEN AddBitAt(keep, 0) ELSE keep
             IN  IF Len(inc) > MantBits
                 THEN [m |-> SubSeq(inc, 1, MantBits), e |-> e + (n - MantBits) + 1]
                 ELSE [m |-> inc, e |-> e + (n - MantBits)]

\* float64(n) for a natural n below 2^31 (exact).
FromNat(n) == RoundBits(BitsOfNat(n), 0, FALSE)

\* bs * c + carry for bs a whole number of chunks, c < 2^20: the schoolbook
\* product, least significant chunk first.
RECURSIVE MulChunks(_, _, _)
MulChunks(bs, c, carry) ==
    IF Len(bs) = 0 THEN BitsOfNat(carry)
    ELSE LET n == Len(bs)
             v == NatOfBits(SubSeq(bs, n - Chunk + 1, n)) * c + carry
         IN  MulChunks(SubSeq(bs, 1, n - Chunk), c, v \div Pow2(Chunk))
             \o BitsOfWidth(v % Pow2(Chunk), Chunk)

\* Zero bits in front of bs up to a whole number of chunks.
PadFront(bs) == Zeros((Chunk - (Len(bs) % Chunk)) % Chunk) \o bs

\* x * float64(c), c a natural below 2^20.
FMulNat(x, c) ==
    IF Len(x.m) = 0 \/ c = 0 THEN FZero
    ELSE RoundBits(MulChunks(PadFront(x.m), c, 0), x.e, FALSE)

\* Long division of bs (a whole number of chunks) by c < 2^20, most
\* significant chunk first, r the remainder so far: the quotient bits and the
\* final remainder.
RECURSIVE DivChunks(_, _, _)
DivChunks(bs, c, r) ==
    IF Len(bs) = 0 THEN [q |-> <<>>, r |-> r]
    ELSE LET v == r * Pow2(Chunk) + NatOfBits(SubSeq(bs, 1, Chunk))
             rec == DivChunks(SubSeq(bs, Chunk + 1, Len(bs)), c, v % c)
         IN  [q |-> BitsOfWidth(v \div c, Chunk) \o rec.q, r |-> rec.r]

\* Bits the dividend is extended by below its last bit, so that the quotient
\* by a c < 2^20 has more than MantBits + 1 significant bits.
DivExtra == 3 * Chunk

\* x / float64(c), c a positive natural below 2^20.
FDivNat(x, c) ==
    IF Len(x.m) = 0 THEN FZero
    ELSE LET d == DivChunks(PadFront(x.m \o Zeros(DivExtra)), c, 0)
         IN  RoundBits(d.q, x.e - DivExtra, d.r # 0)

\* x + 0.5
FAddHalf(x) ==
    IF Len(x.m) = 0 THEN [m |-> <<1>> \o Zeros(MantBits - 1), e |-> -MantBits]
    ELSE LET el == IF x.e < -1 THEN x.e ELSE -1
             xb == x.m \o Zeros(x.e - el)
         IN  RoundBits(AddBitAt(xb, -1 - el), el, FALSE)

\* int(x) for 0 <= x < 2^30: the integer part (Go truncates towards zero).
FTrunc(x) ==
    IF Len(x.m) = 0 THEN 0
    ELSE IF x.e >= 0 THEN NatOfBits(x.m \o Zeros(x.e))
    ELSE IF MantBits + x.e <= 0 THEN 0
    ELSE NatOfBits(SubSeq(x.m, 1, MantBits + x.e))

\* math.Ceil(x) for 0 <= x < 2^30, as a natural.
FCeil(x) ==
    IF Len(x.m) = 0 THEN 0
    ELSE IF x.e >= 0 THEN FTrunc(x)
    ELSE IF MantBits + x.e <= 0 THEN 1
    ELSE FTrunc(x)
         + (IF HasOne(SubSeq(x.m, MantBits + x.e + 1, MantBits)) THEN 1 ELSE 0)

(***************************************************************************)
(* The objects of a target cluster and the inputs of the shifter.          *)
(***************************************************************************)
AppLabel == "app"
ReleaseLabel == "release"
PodTrafficStatusLabel == "traffic-status"
Enabled == "enabled"
Disabled == "disabled"

appName == "app"
Releases == {"r1", "r2"}
Clusters == {"c1", "c2"}
PodNames == 1..NumPods

Nil == "nil"
\* The entry of a pod name no pod has.
NoPod == ("nopod" :> "nopod")

Min(a, b) == IF a < b THEN a ELSE b

\* The label sets a pod of the application can carry: every pod has the app
\* and release labels its chart gives it, and possibly a traffic-status label.
PodClasses ==
    <<NoPod>>
    \o [i \in 1..6 |->
          LET r == IF i <= 3 THEN "r1" ELSE "r2"
              base == (AppLabel :> appName) @@ (ReleaseLabel :> r)
          IN  IF i % 3 = 1 THEN base
              ELSE IF i % 3 = 2 THEN base @@ (PodTrafficStatusLabel :> Enabled)
              ELSE base @@ (PodTrafficStatusLabel :> Disabled)]

\* The selectors the production service can have: none, the application's
\* pods, or the application's pods that are enabled for traffic.
Selectors ==
    { (AppLabel :> appName),
      (AppLabel :> appName) @@ (PodTrafficStatusLabel :> Enabled) }

\* A service: Spec.Selector, and whether it is nil.
Service(sel, isNil) == [selector |-> sel, selectorIsNil |-> isNil]

\* What listing the production-LB services of the namespace can return.
ServiceLists ==
    {<<>>}
    \cup {<<Service(sel, FALSE)>> : sel \in Selectors}
    \cup {<<Service((AppLabel :> appName), TRUE)>>}
    \cup {<<Service((AppLabel :> appName), FALSE), Service((AppLabel :> appName), FALSE)>>}

\* The release -> weight tables of one cluster.
WeightTables ==
    UNION {[rs -> 0..MaxWeight] : rs \in {{"r1"}, {"r1", "r2"}}}

\* The pod label shifter and the cluster it works on.
VARIABLES
    pods,                   \* the pods of the namespace: name -> labels, or NoPod
    services,               \* the services the production selector finds
    clusterReleaseWeights,  \* podLabelShifter.clusterReleaseWeights
    out,                    \* what the last SyncCluster call saw, did and returned
    computed                \* the float64 computations of SyncCluster, by argument

shifterVars == <<pods, services, clusterReleaseWeights, out, computed>>

\* calculateReleasePodTarget on its own.
VARIABLES
    calc                    \* a call: its arguments and its result

targetVars == <<calc>>

\* newPodLabelShifter.
VARIABLES
    trafficTargets,         \* the TrafficTarget objects it is given
    shifter                 \* what it returned

weightVars == <<trafficTargets, shifter>>

\* The strategy controller.
VARIABLES
    releasesLister,         \* the Release objects of the informer cache
    targetsListers,         \* for each kind of target, the names of the objects cached
    workqueue,              \* the rate limiting work queue
    workers,                \* what each worker goroutine is doing
    stopCh,                 \* TRUE once the stop channel is closed
    events                  \* the number of informer events delivered

controllerVars == <<releasesLister, targetsListers, workqueue, workers, stopCh, events>>

\* TargetObjectsForRelease.
VARIABLES
    apiObjects,             \* for each kind of target, what the API server holds and does
    targetObjects           \* a call: its argument and what it returned

objectVars == <<apiObjects, targetObjects>>

\* SetReleaseCondition.
VARIABLES
    releaseStatus,          \* the ReleaseStatus the calls are made on
    setCalls,               \* the number of calls made
    returnedDiff            \* whether the last call returned a diff, or nil

conditionVars == <<releaseStatus, setCalls, returnedDiff>>

\* One release going through its strategy: syncOne with the executor.
VARIABLES
    rollout,                \* the release, its incumbent and their targets, as the API server holds them
    reconcile               \* the syncOne call that just returned: the results, the patch calls, the error

strategyVars == <<rollout, reconcile>>

vars == <<shifterVars, targetVars, weightVars, controllerVars, objectVars, conditionVars,
          strategyVars>>

(***************************************************************************)
(* pod_label_shifter.go                                                    *)
(***************************************************************************)
getsTraffic(pod, trafficSelectors) ==
    \A key \in DOMAIN trafficSelectors :
        key \in DOMAIN pod /\ pod[key] = trafficSelectors[key]

\* A faulty patchPodTrafficStatusLabel, which writes disabled whatever the
\* value asked for: with it no release ever grows.
patchPodTrafficStatusLabelDisabling(pod, value) ==
    [op |-> IF PodTrafficStatusLabel \in DOMAIN pod THEN "replace" ELSE "add",
     path |-> "/metadata/labels/traffic-status",
     value |-> Disabled]

patchPodTrafficStatusLabel(pod, value) ==
    [op |-> IF PodTrafficStatusLabel \in DOMAIN pod THEN "replace" ELSE "add",
     path |-> "/metadata/labels/traffic-status",
     value |-> value]

\* The API server applying a JSON patch to the labels of a pod.
ApplyPatch(pod, patch) ==
    [k \in DOMAIN pod \cup {PodTrafficStatusLabel} |->
        IF k = PodTrafficStatusLabel THEN patch.value ELSE pod[k]]

\* replicas.CalculateDesiredReplicaCount
CalculateDesiredReplicaCount(totalReplicaCount, percentage) ==
    FCeil(FMulNat(FDivNat(percentage, 100), totalReplicaCount))

\* A faulty calculateReleasePodTarget, which keeps every pod of the release
\* when the weights sum to 0.
calculateReleasePodTargetKeeping(releasePods, releaseWeight, totalPods, totalWeight) ==
    LET targetPercent ==
            IF totalWeight = 0 THEN FromNat(100)
            ELSE FMulNat(FDivNat(FromNat(releaseWeight), totalWeight), 100)
        targetPods == CalculateDesiredReplicaCount(totalPods, targetPercent)
    IN  Min(releasePods, targetPods)

\* calculateReleasePodTarget without the clamp to the release's own pods.
calculateReleasePodTargetUnclamped(releasePods, releaseWeight, totalPods, totalWeight) ==
    LET targetPercent ==
            IF totalWeight = 0 THEN FZero
            ELSE FMulNat(FDivNat(FromNat(releaseWeight), totalWeight), 100)
    IN  CalculateDesiredReplicaCount(totalPods, targetPercent)

calculateReleasePodTarget(releasePods, releaseWeight, totalPods, totalWeight) ==
    LET targetPercent ==
            IF totalWeight = 0 THEN FZero
            ELSE FMulNat(FDivNat(FromNat(releaseWeight), totalWeight), 100)
        targetPods == CalculateDesiredReplicaCount(totalPods, targetPercent)
    IN  Min(releasePods, targetPods)

\* round, for the non-negative numbers SyncCluster passes to it.
round(num) == FTrunc(FAddHalf(num))

\* uint32(round(proportion * float64(totalWeight))), with
\* proportion := float64(finalTrafficPods) / float64(totalPods)
achievedWeight(finalTrafficPods, totalPods, totalWeight) ==
    round(FMulNat(FDivNat(FromNat(finalTrafficPods), totalPods), totalWeight))

\* The two computations above over the pod counts and weights of the model:
\* they are evaluated once, when the state is set up, and SyncCluster reads
\* the results.
MaxTotalWeight == Cardinality(Releases) * MaxWeight

PodTargetTable ==
    [releasePods \in 0..NumPods, releaseWeight \in 0..MaxWeight,
     totalPods \in 0..NumPods, totalWeight \in 0..MaxTotalWeight |->
        calculateReleasePodTarget(releasePods, releaseWeight, totalPods, totalWeight)]

AchievedWeightTable ==
    [finalTrafficPods \in 0..NumPods, totalPods \in 1..NumPods,
     totalWeight \in 0..MaxTotalWeight |->
        achievedWeight(finalTrafficPods, totalPods, totalWeight)]

Computed ==
    computed = [podTargets |-> PodTargetTable, achievedWeights |-> AchievedWeightTable]

podTargets == computed.podTargets

achievedWeights == computed.achievedWeights

RECURSIVE SumWeights(_, _)
SumWeights(releaseWeights, rs) ==
    IF rs = {} THEN 0
    ELSE LET r == CHOOSE x \in rs : TRUE
         IN  releaseWeights[r] + SumWeights(releaseWeights, rs \ {r})

\* The orders a lister (or the iteration of a Go map) can return S in.
ListOrders(S) ==
    {s \in [1..Cardinality(S) -> S] : \A i, j \in DOMAIN s : i # j => s[i] # s[j]}

\* nsPodLister.List(selector): the names of the pods carrying the labels.
PodsWith(ps, selector) ==
    {n \in PodNames : ps[n] # NoPod /\ getsTraffic(ps[n], selector)}

\* The value of a release achievedWeights has no entry for.
NoWeight == -1

NoWeights == [r \in Releases |-> NoWeight]

\* A faulty shrink loop, which sends a patch for each of the n pods whatever
\* its label.
ShrinkPatchedAll(ps, list, n) == [i \in 1..n |-> i]

\* The positions 1..n of list, in order, of the pods the shrink loop sends a
\* patch for.
ShrinkPatched(ps, list, n) ==
    SelectSeq([i \in 1..n |-> i], LAMBDA i :
        PodTrafficStatusLabel \notin DOMAIN ps[list[i]]
        \/ ps[list[i]][PodTrafficStatusLabel] = Enabled)

\* A faulty grow loop, which sends no patch for a pod without the label.
GrowPatchedLabelled(ps, list, n) ==
    SelectSeq([i \in 1..n |-> i], LAMBDA i :
        PodTrafficStatusLabel \in DOMAIN ps[list[i]]
        /\ ps[list[i]][PodTrafficStatusLabel] = Disabled)

\* The positions 1..n of list, in order, of the pods the grow loop sends a
\* patch for.
GrowPatched(ps, list, n) ==
    SelectSeq([i \in 1..n |-> i], LAMBDA i :
        PodTrafficStatusLabel \notin DOMAIN ps[list[i]]
        \/ (PodTrafficStatusLabel \in DOMAIN ps[list[i]]
            /\ ps[list[i]][PodTrafficStatusLabel] = Disabled))

\* The Patch calls of a loop: the pod, its position in the list the loop runs
\* over, the patch sent, the labels the pod had, and whether the call
\* succeeded.
PatchCalls(ps, list, patched, value, failing) ==
    [j \in 1..Len(patched) |->
        [pod |-> list[patched[j]],
         index |-> patched[j],
         patch |-> patchPodTrafficStatusLabel(ps[list[patched[j]]], value),
         before |-> ps[list[patched[j]]],
         ok |-> list[patched[j]] \notin failing]]

\* A faulty count, which takes a pod as moved though its Patch call failed.
MovedCountingFailed(n, errors) == n

\* removedFromLB / addedToLB after a loop over n pods: a pod counts unless its
\* Patch call failed.
Moved(n, errors) == n - Len(errors)

LabelErrors(calls) ==
    LET failed == SelectSeq(calls, LAMBDA c : ~c.ok)
    IN  [i \in 1..Len(failed) |->
            [kind |-> "TrafficModifyingLabel", pod |-> failed[i].pod, release |-> ""]]

\* What a call records of a release it has not reached.
NotSeen ==
    [listed |-> FALSE, releasePods |-> 0, trafficPods |-> 0, idlePods |-> 0,
     targetPods |-> 0, calls |-> <<>>]

\* The body of the loop over releaseWeights for one release: releasePods is
\* what the lister returned, failing the pods whose Patch call returns an
\* error.
SyncRelease(ps, trafficSelector, release, weight, totalPods, totalWeight, releasePods, failing) ==
    LET targetPods == podTargets[Len(releasePods), weight, totalPods, totalWeight]
        trafficPods == SelectSeq(releasePods, LAMBDA n : getsTraffic(ps[n], trafficSelector))
        idlePods == SelectSeq(releasePods, LAMBDA n : ~getsTraffic(ps[n], trafficSelector))
        seen == [listed |-> TRUE, releasePods |-> Len(releasePods),
                 trafficPods |-> Len(trafficPods), idlePods |-> Len(idlePods),
                 targetPods |-> targetPods, calls |-> <<>>]
    IN  IF Len(trafficPods) = targetPods
        THEN [seen |-> seen, errors |-> <<>>, achieved |-> weight]
        ELSE IF Len(trafficPods) > targetPods
        THEN LET excess == Len(trafficPods) - targetPods
                 calls == PatchCalls(ps, trafficPods, ShrinkPatched(ps, trafficPods, excess),
                                     Disabled, failing)
                 errors == LabelErrors(calls)
                 removedFromLB == Moved(excess, errors)
                 finalTrafficPods == Len(trafficPods) - removedFromLB
             IN  [seen |-> [seen EXCEPT !.calls = calls], errors |-> errors,
                  achieved |-> achievedWeights[finalTrafficPods, totalPods, totalWeight]]
        ELSE LET missing == targetPods - Len(trafficPods)
             IN  IF missing > Len(idlePods)
                 THEN [seen |-> seen,
                       errors |-> <<[kind |-> "Math", pod |-> 0, release |-> release]>>,
                       achieved |-> NoWeight]
                 ELSE LET calls == PatchCalls(ps, idlePods, GrowPatched(ps, idlePods, missing),
                                              Enabled, failing)
                          errors == LabelErrors(calls)
                          addedToLB == Moved(missing, errors)
                          finalTrafficPods == Len(trafficPods) + addedToLB
                      IN  [seen |-> [seen EXCEPT !.calls = calls], errors |-> errors,
                           achieved |-> achievedWeights[finalTrafficPods, totalPods, totalWeight]]

\* The pods after the API server has applied the calls that succeeded.
AfterCalls(ps, calls) ==
    [n \in PodNames |->
        IF \E i \in DOMAIN calls : calls[i].pod = n /\ calls[i].ok
        THEN LET i == CHOOSE j \in DOMAIN calls : calls[j].pod = n /\ calls[j].ok
             IN  ApplyPatch(ps[n], calls[i].patch)
        ELSE ps[n]]

\* The loop over releaseWeights, in the order the map iteration yields the
\* releases, up to the first release whose pod listing fails (failAt, 0 when
\* none does).  acc: the pods, and what the loop has recorded so far.
RECURSIVE SyncLoop(_, _, _, _, _, _, _, _, _)
SyncLoop(acc, i, order, failAt, releaseWeights, trafficSelector, totalPods, lists, failing) ==
    IF i > Len(order) THEN acc
    ELSE IF i = failAt THEN [acc EXCEPT !.fatal = "ReleasePodListing"]
    ELSE LET release == order[i]
             Body(res) ==
                 [pods |-> AfterCalls(acc.pods, res.seen.calls),
                  fatal |-> acc.fatal,
                  achievedWeights |->
                      [acc.achievedWeights EXCEPT ![release] = res.achieved],
                  errors |-> acc.errors \o res.errors,
                  seen |-> [acc.seen EXCEPT ![release] = res.seen]]
             Rest(next) ==
                 SyncLoop(next, i + 1, order, failAt, releaseWeights,
                          trafficSelector, totalPods, lists, failing)
             \* each step's value is bound once before the next step uses it
         IN  CHOOSE loop \in
                 {Rest(next) : next \in
                     {Body(res) : res \in
                         {SyncRelease(acc.pods, trafficSelector, release,
                                      releaseWeights[release], totalPods,
                                      SumWeights(releaseWeights, DOMAIN releaseWeights),
                                      lists[release], failing)}}} : TRUE

\* out before the first call.
NoRun ==
    [state |-> "init", cluster |-> Nil, fatal |-> Nil, resultsNil |-> TRUE,
     achievedWeights |-> NoWeights, errors |-> <<>>,
     seen |-> [r \in Releases |-> NotSeen], totalPods |-> 0]

\* out after a call: the three values returned (achievedWeights and errors
\* are nil when fatal is not), and what the call listed and sent (seen,
\* totalPods).
Returned(cluster, fatal, loop, totalPods) ==
    [state |-> "returned", cluster |-> cluster, fatal |-> fatal,
     resultsNil |-> fatal # Nil,
     achievedWeights |-> IF fatal = Nil THEN loop.achievedWeights ELSE NoWeights,
     errors |-> IF fatal = Nil THEN loop.errors ELSE <<>>,
     seen |-> loop.seen, totalPods |-> totalPods]

EmptyLoop(ps) ==
    [pods |-> ps, fatal |-> Nil, achievedWeights |-> NoWeights, errors |-> <<>>,
     seen |-> [r \in Releases |-> NotSeen]]

\* One call of SyncCluster.  listFault: the List call that returns an error
\* ("services", "pods", or none), order: the order the iteration of
\* releaseWeights yields the releases in, failAt: the position in it of the
\* release whose pod listing fails (0: none), lists: what the lister returns
\* for each release, failing: the pods whose Patch call fails.
SyncClusterWith(cluster, listFault, order, failAt, lists, failing) ==
    /\ UNCHANGED <<services, clusterReleaseWeights, computed>>
    /\ UNCHANGED <<targetVars, weightVars, controllerVars, objectVars, conditionVars, strategyVars>>
    /\ IF cluster \notin DOMAIN clusterReleaseWeights
       THEN /\ out' = Returned(cluster, "NoWeights", EmptyLoop(pods), 0)
            /\ pods' = pods
       ELSE IF listFault = "services"
       THEN /\ out' = Returned(cluster, "FetchServiceFailed", EmptyLoop(pods), 0)
            /\ pods' = pods
       ELSE IF Len(services) # 1
       THEN /\ out' = Returned(cluster, "WrongServiceCount", EmptyLoop(pods), 0)
            /\ pods' = pods
       ELSE IF services[1].selectorIsNil
       THEN /\ out' = Returned(cluster, "ServiceMissesSelector", EmptyLoop(pods), 0)
            /\ pods' = pods
       ELSE IF listFault = "pods"
       THEN /\ out' = Returned(cluster, "PodListing", EmptyLoop(pods), 0)
            /\ pods' = pods
       ELSE LET releaseWeights == clusterReleaseWeights[cluster]
                totalPods == Cardinality(PodsWith(pods, (AppLabel :> appName)))
            IN  \E loop \in {SyncLoop(EmptyLoop(pods), 1, order, failAt, releaseWeights,
                                      services[1].selector, totalPods, lists, failing)} :
                    /\ pods' = loop.pods
                    /\ out' = Returned(cluster, loop.fatal, loop, totalPods)

\* The releases of the cluster (none for a cluster without weights).
ReleasesOf(cluster) ==
    IF cluster \in DOMAIN clusterReleaseWeights
    THEN DOMAIN clusterReleaseWeights[cluster] ELSE {}

\* What the lister can return for each release of the cluster.
ReleaseLists(cluster) ==
    LET L(r) == IF r \in ReleasesOf(cluster)
                THEN ListOrders(PodsWith(pods, (ReleaseLabel :> r))) ELSE {<<>>}
    IN  {[r \in Releases |-> IF r = "r1" THEN l1 ELSE l2] : l1 \in L("r1"), l2 \in L("r2")}

\* The pods a call sends a patch for; it does so whether or not an earlier
\* patch failed.
Patched(cluster, order, failAt, lists) ==
    IF cluster \notin DOMAIN clusterReleaseWeights \/ Len(services) # 1
    THEN {}
    ELSE LET loop == SyncLoop(EmptyLoop(pods), 1, order, failAt,
                              clusterReleaseWeights[cluster], services[1].selector,
                              Cardinality(PodsWith(pods, (AppLabel :> appName))),
                              lists, {})
         IN  UNION {{loop.seen[r].calls[i].pod : i \in DOMAIN loop.seen[r].calls} :
                         r \in Releases}

SyncCluster(cluster) ==
    \/ \E listFault \in {"services", "pods"} :
          SyncClusterWith(cluster, listFault, <<>>, 0, [r \in Releases |-> <<>>], {})
    \/ \E order \in ListOrders(ReleasesOf(cluster)) :
       \E failAt \in 0..Len(order) :
       \E lists \in ReleaseLists(cluster) :
       \E failing \in SUBSET Patched(cluster, order, failAt, lists) :
          SyncClusterWith(cluster, "none", order, failAt, lists, failing)

ShifterInit ==
    /\ Computed
    /\ \E f \in [PodNames -> 1..Len(PodClasses)] :
          /\ \A i, j \in PodNames : i < j => f[i] <= f[j]
          /\ pods = [n \in PodNames |-> PodClasses[f[n]]]
    /\ services \in ServiceLists
    /\ clusterReleaseWeights \in {("c1" :> t) : t \in WeightTables}
    /\ out = NoRun

\* The shifter before any pod, service or weight exists: the state of the
\* shifter's variables while another part of the program is looked at.
ShifterIdle ==
    /\ computed = [podTargets |-> <<>>, achievedWeights |-> <<>>]
    /\ pods = [n \in PodNames |-> NoPod]
    /\ services = <<>>
    /\ clusterReleaseWeights = [c \in {} |-> 0]
    /\ out = NoRun

(***************************************************************************)
(* calculateReleasePodTarget on its own.                                   *)
(***************************************************************************)
NoTarget == -1

\* The arguments SyncCluster can pass: totalWeight is the sum of the weights
\* of the cluster, releaseWeight one of them.
TargetInit ==
    /\ calc \in [releasePods : 0..MaxTarget, releaseWeight : 0..MaxTarget,
                 totalPods : 0..MaxTarget, totalWeight : 0..MaxTarget,
                 targetPods : {NoTarget}]
    /\ calc.releaseWeight <= calc.totalWeight

TargetIdle ==
    calc = [releasePods |-> 0, releaseWeight |-> 0, totalPods |-> 0,
            totalWeight |-> 0, targetPods |-> NoTarget]

CalculateReleasePodTarget ==
    /\ calc.targetPods = NoTarget
    /\ calc' = [calc EXCEPT !.targetPods =
                   calculateReleasePodTarget(calc.releasePods, calc.releaseWeight,
                                             calc.totalPods, calc.totalWeight)]
    /\ UNCHANGED <<shifterVars, weightVars, controllerVars, objectVars, conditionVars, strategyVars>>

(***************************************************************************)
(* newPodLabelShifter and buildClusterReleaseWeights.  Weights are uint32: *)
(* a weight is held as two limbs of 16 bits, hi * 2^16 + lo.               *)
(***************************************************************************)
Uint32Bits == 32

Limb == Pow2(Uint32Bits \div 2)

U32(n) == [hi |-> n \div Limb, lo |-> n % Limb]

\* a + b in uint32 arithmetic.
Add32(a, b) ==
    [hi |-> (a.hi + b.hi + ((a.lo + b.lo) \div Limb)) % Limb,
     lo |-> (a.lo + b.lo) % Limb]

\* The weights a TrafficTarget can list for a cluster.
ClusterWeights == {U32(w) : w \in 0..MaxWeight} \cup {[hi |-> Limb \div 2, lo |-> 0]}

ClusterEntries == [name : Clusters, weight : ClusterWeights]

\* tt.Spec.Clusters
ClusterEntryLists ==
    UNION {[1..n -> ClusterEntries] : n \in 0..MaxClusterEntries}

TrafficTargetLabels ==
    {(AppLabel :> appName)}
        \cup {(AppLabel :> appName) @@ (ReleaseLabel :> r) : r \in Releases}

\* A TrafficTarget object but for its name.
TrafficTargetSpecs == [labels : TrafficTargetLabels, clusters : ClusterEntryLists]

\* The list of TrafficTarget objects with these labels and clusters, the
\* object at position i being named i.
TrafficTargetList(specs) ==
    [i \in DOMAIN specs |->
        [name |-> i, labels |-> specs[i].labels, clusters |-> specs[i].clusters]]

EmptyMap == [k \in {} |-> 0]

\* A faulty weights[release] += cluster.Weight, which overwrites the weight.
SetWeight(clusterReleases, release, cluster) ==
    LET weights == IF cluster.name \in DOMAIN clusterReleases
                   THEN clusterReleases[cluster.name] ELSE EmptyMap
    IN  [c \in DOMAIN clusterReleases \cup {cluster.name} |->
            IF c = cluster.name
            THEN [r \in DOMAIN weights \cup {release} |->
                     IF r = release THEN cluster.weight ELSE weights[r]]
            ELSE clusterReleases[c]]

\* A faulty body in which the weight is added only in the branch that makes
\* the cluster's map, so that only the first release listing a cluster counts.
AddWeightOnce(clusterReleases, release, cluster) ==
    IF cluster.name \in DOMAIN clusterReleases THEN clusterReleases
    ELSE [c \in DOMAIN clusterReleases \cup {cluster.name} |->
            IF c = cluster.name THEN (release :> cluster.weight)
            ELSE clusterReleases[c]]

\* The body of the loop over tt.Spec.Clusters.
AddWeight(clusterReleases, release, cluster) ==
    LET weights == IF cluster.name \in DOMAIN clusterReleases
                   THEN clusterReleases[cluster.name] ELSE EmptyMap
        old == IF release \in DOMAIN weights THEN weights[release] ELSE U32(0)
    IN  [c \in DOMAIN clusterReleases \cup {cluster.name} |->
            IF c = cluster.name
            THEN [r \in DOMAIN weights \cup {release} |->
                     IF r = release THEN Add32(old, cluster.weight) ELSE weights[r]]
            ELSE clusterReleases[c]]

RECURSIVE AddWeights(_, _, _, _)
AddWeights(clusterReleases, release, clusters, j) ==
    IF j > Len(clusters) THEN clusterReleases
    ELSE AddWeights(AddWeight(clusterReleases, release, clusters[j]),
                    release, clusters, j + 1)

\* The loop over trafficTargets, from position i on.
RECURSIVE BuildLoop(_, _, _, _)
BuildLoop(tts, i, clusterReleases, releaseTT) ==
    IF i > Len(tts)
    THEN [err |-> Nil, isNil |-> FALSE, table |-> clusterReleases]
    ELSE LET tt == tts[i]
         IN  IF ReleaseLabel \notin DOMAIN tt.labels
             THEN [err |-> "NeedsReleaseLabel", isNil |-> TRUE, table |-> EmptyMap]
             ELSE IF tt.labels[ReleaseLabel] \in DOMAIN releaseTT
             THEN [err |-> "BothOperateOnRelease", isNil |-> TRUE, table |-> EmptyMap]
             ELSE BuildLoop(tts, i + 1,
                            AddWeights(clusterReleases, tt.labels[ReleaseLabel],
                                       tt.clusters, 1),
                            releaseTT @@ (tt.labels[ReleaseLabel] :> tt.name))

buildClusterReleaseWeights(tts) ==
    BuildLoop(tts, 1, EmptyMap, EmptyMap)

NoShifter == [state |-> "none", err |-> Nil, isNil |-> TRUE, clusterReleaseWeights |-> EmptyMap]

WeightsInit ==
    /\ \E n \in 0..MaxTrafficTargets :
       \E specs \in [1..n -> TrafficTargetSpecs] :
           trafficTargets = TrafficTargetList(specs)
    /\ shifter = NoShifter

WeightsIdle ==
    /\ trafficTargets = <<>>
    /\ shifter = NoShifter

newPodLabelShifter ==
    /\ shifter.state = "none"
    /\ LET built == buildClusterReleaseWeights(trafficTargets)
       IN  shifter' = [state |-> "returned", err |-> built.err, isNil |-> built.isNil,
                       clusterReleaseWeights |-> built.table]
    /\ UNCHANGED <<trafficTargets, shifterVars, targetVars, controllerVars, objectVars, conditionVars, strategyVars>>

(***************************************************************************)
(* The strategy controller: its informer caches, its work queue and its    *)
(* workers.                                                                *)
(***************************************************************************)
Namespace == "ns"

ReleaseNames == {"a", "b"}

Workers == 1..Threadiness

ReleasePhaseWaitingForScheduling == "WaitingForScheduling"
ReleasePhaseWaitingForStrategy == "WaitingForStrategy"
ReleasePhaseWaitingForCommand == "WaitingForCommand"
ReleasePhaseInstalled == "Installed"

Phases ==
    {ReleasePhaseWaitingForScheduling, ReleasePhaseWaitingForStrategy,
     ReleasePhaseWaitingForCommand, ReleasePhaseInstalled}

\* The value of an annotation the object does not carry.
NoAnn == "-"

\* The Release objects of the model: release a may name b as its contender,
\* release b may name a as its incumbent.
ReleaseObjs ==
    [namespace : {Namespace}, name : {"a"}, phase : Phases,
     contender : {NoAnn, "b"}, incumbent : {NoAnn}]
    \cup
    [namespace : {Namespace}, name : {"b"}, phase : Phases,
     contender : {NoAnn}, incumbent : {NoAnn, "a"}]

TargetKinds == {"InstallationTarget", "CapacityTarget", "TrafficTarget"}

\* cache.MetaNamespaceKeyFunc and cache.SplitMetaNamespaceKey
MetaNamespaceKeyFunc(obj) == <<obj.namespace, obj.name>>

SplitMetaNamespaceKey(key) == [ns |-> key[1], name |-> key[2]]

Keys == {<<Namespace, n>> : n \in ReleaseNames}

\* lister.Releases(ns).Get(name): the objects found (none, or one).
GetRelease(releases, ns, name) == {r \in releases : r.namespace = ns /\ r.name = name}

(* The work queue (client-go workqueue). *)
\* A faulty queue.Add, which queues an item that is being processed.
AddWhileProcessing(q, item) ==
    IF q.shuttingDown \/ item \in q.dirty THEN q
    ELSE [q EXCEPT !.dirty = @ \cup {item}, !.queue = Append(@, item)]

\* queue.Add
Add(q, item) ==
    IF q.shuttingDown \/ item \in q.dirty THEN q
    ELSE IF item \in q.processing THEN [q EXCEPT !.dirty = @ \cup {item}]
    ELSE [q EXCEPT !.dirty = @ \cup {item}, !.queue = Append(@, item)]

\* queue.AddRateLimited: the rate limiter counts the item and the item is
\* added once its delay has elapsed.
AddRateLimited(q, item) ==
    IF q.shuttingDown THEN [q EXCEPT !.failures[item] = @ + 1]
    ELSE [q EXCEPT !.failures[item] = @ + 1, !.waiting = @ \cup {item}]

\* queue.Forget
Forget(q, item) == [q EXCEPT !.failures[item] = 0]

\* queue.Done that leaves an item added again in the processing set.
DoneKeeping(q, item) ==
    IF item \in q.dirty
    THEN [q EXCEPT !.queue = Append(@, item)]
    ELSE [q EXCEPT !.processing = @ \ {item}]

\* queue.Done
Done(q, item) ==
    IF item \in q.dirty
    THEN [q EXCEPT !.processing = @ \ {item}, !.queue = Append(@, item)]
    ELSE [q EXCEPT !.processing = @ \ {item}]

isWorkingOnStrategy(r) ==
    r.phase \in {ReleasePhaseWaitingForCommand, ReleasePhaseWaitingForStrategy}

isInstalled(r) == r.phase = ReleasePhaseInstalled

\* contenderForRelease: the contender found (a set of at most one object) and
\* whether the lister returned an error.
contenderForRelease(releases, r) ==
    IF r.contender # NoAnn
    THEN [found |-> GetRelease(releases, r.namespace, r.contender),
          err |-> GetRelease(releases, r.namespace, r.contender) = {}]
    ELSE [found |-> {}, err |-> FALSE]

\* A faulty enqueueRelease, which enqueues the contender of an installed
\* release whatever the contender's phase.
enqueueReleaseUnchecked(q, releases, rel) ==
    IF isInstalled(rel)
    THEN LET c == contenderForRelease(releases, rel)
         IN  IF c.err \/ c.found = {} THEN q
             ELSE AddRateLimited(q, MetaNamespaceKeyFunc(CHOOSE x \in c.found : TRUE))
    ELSE IF isWorkingOnStrategy(rel)
    THEN AddRateLimited(q, MetaNamespaceKeyFunc(rel))
    ELSE q

\* A faulty enqueueRelease, which does not look for the contender of an
\* installed release.
enqueueReleaseItself(q, releases, rel) ==
    IF isWorkingOnStrategy(rel)
    THEN AddRateLimited(q, MetaNamespaceKeyFunc(rel))
    ELSE q

\* enqueueRelease: the work queue after it.
enqueueRelease(q, releases, rel) ==
    IF isInstalled(rel)
    THEN LET c == contenderForRelease(releases, rel)
         IN  IF c.err THEN q
             ELSE IF c.found # {}
             THEN LET contenderRel == CHOOSE x \in c.found : TRUE
                  IN  IF isWorkingOnStrategy(contenderRel)
                      THEN AddRateLimited(q, MetaNamespaceKeyFunc(contenderRel))
                      ELSE q
             ELSE q
    ELSE IF isWorkingOnStrategy(rel)
    THEN AddRateLimited(q, MetaNamespaceKeyFunc(rel))
    ELSE q

\* enqueueInstallationTarget, enqueueCapacityTarget, enqueueTrafficTarget,
\* with getAssociatedRelease: the work queue after the handler.
enqueueTarget(q, releases, ns, name) ==
    IF GetRelease(releases, ns, name) = {} THEN q
    ELSE enqueueRelease(q, releases, CHOOSE x \in GetRelease(releases, ns, name) : TRUE)

\* buildReleaseInfo: the error it returns, Nil when none.
buildReleaseInfo(ns, name) ==
    IF GetRelease(releasesLister, ns, name) = {} THEN "ReleaseNotFound"
    ELSE IF name \notin targetsListers["InstallationTarget"] THEN "InstallationTargetNotFound"
    ELSE IF name \notin targetsListers["CapacityTarget"] THEN "CapacityTargetNotFound"
    ELSE IF name \notin targetsListers["TrafficTarget"] THEN "TrafficTargetNotFound"
    ELSE Nil

\* incumbentReleaseNameForRelease
incumbentReleaseNameForRelease(ns, name) ==
    IF GetRelease(releasesLister, ns, name) = {} THEN [name |-> "", err |-> "ReleaseNotFound"]
    ELSE LET rel == CHOOSE x \in GetRelease(releasesLister, ns, name) : TRUE
         IN  IF rel.incumbent # NoAnn THEN [name |-> rel.incumbent, err |-> Nil]
             ELSE [name |-> "", err |-> "ErrNotExist"]

\* buildStrategy: the error it returns, Nil when it returns an Executor.
buildStrategy(ns, name) ==
    IF buildReleaseInfo(ns, name) # Nil THEN buildReleaseInfo(ns, name)
    ELSE LET incumbent == incumbentReleaseNameForRelease(ns, name)
         IN  IF incumbent.err # "ErrNotExist"
             THEN buildReleaseInfo(ns, incumbent.name)
             ELSE Nil

\* What strategy.execute and the patches of its results can come to.
ExecuteOutcomes == {"Applied", "ExecuteError", "PatchError"}

\* syncOne: the error it returns, Nil when none.
syncOne(key, outcome) ==
    LET k == SplitMetaNamespaceKey(key)
    IN  IF buildStrategy(k.ns, k.name) # Nil THEN buildStrategy(k.ns, k.name)
        ELSE IF outcome = "Applied" THEN Nil
        ELSE outcome

NoKey == <<Namespace, "">>

Idle == [pc |-> "ready", key |-> NoKey, err |-> Nil]

ControllerInit ==
    /\ releasesLister = {}
    /\ targetsListers = [k \in TargetKinds |-> {}]
    /\ workqueue = [queue |-> <<>>, dirty |-> {}, processing |-> {}, waiting |-> {},
                    failures |-> [k \in Keys |-> 0], shuttingDown |-> FALSE]
    /\ workers = [w \in Workers |-> Idle]
    /\ stopCh = FALSE
    /\ events = 0

ControllerIdle == ControllerInit

(* The informers: an event changes the cache, then the handler runs. *)
\* AddFunc of the release informer.
ReleaseAdded(rel) ==
    /\ events < MaxEvents
    /\ GetRelease(releasesLister, rel.namespace, rel.name) = {}
    /\ releasesLister' = releasesLister \cup {rel}
    /\ workqueue' = enqueueRelease(workqueue, releasesLister \cup {rel}, rel)
    /\ events' = events + 1
    /\ UNCHANGED <<targetsListers, workers, stopCh>>
    /\ UNCHANGED <<shifterVars, targetVars, weightVars, objectVars, conditionVars, strategyVars>>

\* UpdateFunc of the release informer.
ReleaseUpdated(rel) ==
    /\ events < MaxEvents
    /\ GetRelease(releasesLister, rel.namespace, rel.name) # {}
    /\ LET releases == (releasesLister \ GetRelease(releasesLister, rel.namespace, rel.name))
                           \cup {rel}
       IN  /\ releasesLister' = releases
           /\ workqueue' = IF isWorkingOnStrategy(rel)
                           THEN enqueueRelease(workqueue, releases, rel)
                           ELSE workqueue
    /\ events' = events + 1
    /\ UNCHANGED <<targetsListers, workers, stopCh>>
    /\ UNCHANGED <<shifterVars, targetVars, weightVars, objectVars, conditionVars, strategyVars>>

\* The release informer has no DeleteFunc.
ReleaseDeleted(name) ==
    /\ events < MaxEvents
    /\ GetRelease(releasesLister, Namespace, name) # {}
    /\ releasesLister' = releasesLister \ GetRelease(releasesLister, Namespace, name)
    /\ events' = events + 1
    /\ UNCHANGED <<targetsListers, workqueue, workers, stopCh>>
    /\ UNCHANGED <<shifterVars, targetVars, weightVars, objectVars, conditionVars, strategyVars>>

\* AddFunc and UpdateFunc of the informer of a kind of target.
TargetAddedOrUpdated(kind, name) ==
    /\ events < MaxEvents
    /\ targetsListers' = [targetsListers EXCEPT ![kind] = @ \cup {name}]
    /\ workqueue' = enqueueTarget(workqueue, releasesLister, Namespace, name)
    /\ events' = events + 1
    /\ UNCHANGED <<releasesLister, workers, stopCh>>
    /\ UNCHANGED <<shifterVars, targetVars, weightVars, objectVars, conditionVars, strategyVars>>

TargetDeleted(kind, name) ==
    /\ events < MaxEvents
    /\ name \in targetsListers[kind]
    /\ targetsListers' = [targetsListers EXCEPT ![kind] = @ \ {name}]
    /\ events' = events + 1
    /\ UNCHANGED <<releasesLister, workqueue, workers, stopCh>>
    /\ UNCHANGED <<shifterVars, targetVars, weightVars, objectVars, conditionVars, strategyVars>>

\* The delay the rate limiter gave an item has elapsed.
DelayElapsed(item) ==
    /\ item \in workqueue.waiting
    /\ workqueue' = Add([workqueue EXCEPT !.waiting = @ \ {item}], item)
    /\ UNCHANGED <<releasesLister, targetsListers, workers, stopCh, events>>
    /\ UNCHANGED <<shifterVars, targetVars, weightVars, objectVars, conditionVars, strategyVars>>

(* processNextWorkItem, step by step. *)
\* c.workqueue.Get(): blocks while the queue is empty and not shut down.
WorkerGet(w) ==
    /\ workers[w].pc = "ready"
    /\ IF workqueue.queue # <<>>
       THEN LET item == Head(workqueue.queue)
            IN  /\ workqueue' = [workqueue EXCEPT !.queue = Tail(@),
                                                  !.processing = @ \cup {item},
                                                  !.dirty = @ \ {item}]
                /\ workers' = [workers EXCEPT ![w] = [pc |-> "syncing", key |-> item,
                                                      err |-> Nil]]
       ELSE /\ workqueue.shuttingDown
            /\ workers' = [workers EXCEPT ![w].pc = "returned"]
            /\ UNCHANGED workqueue
    /\ UNCHANGED <<releasesLister, targetsListers, stopCh, events>>
    /\ UNCHANGED <<shifterVars, targetVars, weightVars, objectVars, conditionVars, strategyVars>>

\* c.syncOne(key), then Forget when it returned no error.
WorkerSync(w) ==
    /\ workers[w].pc = "syncing"
    /\ \E outcome \in ExecuteOutcomes :
          LET err == syncOne(workers[w].key, outcome)
          IN  /\ workers' = [workers EXCEPT ![w].pc = "deferred", ![w].err = err]
              /\ workqueue' = IF err = Nil THEN Forget(workqueue, workers[w].key)
                              ELSE workqueue
    /\ UNCHANGED <<releasesLister, targetsListers, stopCh, events>>
    /\ UNCHANGED <<shifterVars, targetVars, weightVars, objectVars, conditionVars, strategyVars>>

\* The deferred c.workqueue.Done(obj); processNextWorkItem returns, and
\* runWorker calls it again when it returned true.
WorkerDone(w) ==
    /\ workers[w].pc = "deferred"
    /\ workqueue' = Done(workqueue, workers[w].key)
    /\ workers' = [workers EXCEPT ![w] =
                      [pc |-> IF workers[w].err = Nil THEN "ready" ELSE "returned",
                       key |-> NoKey, err |-> Nil]]
    /\ UNCHANGED <<releasesLister, targetsListers, stopCh, events>>
    /\ UNCHANGED <<shifterVars, targetVars, weightVars, objectVars, conditionVars, strategyVars>>

\* wait.Until: runWorker has returned; it is called again after the period
\* unless the stop channel is closed.
WorkerRestart(w) ==
    /\ workers[w].pc = "returned"
    /\ workers' = [workers EXCEPT ![w].pc = IF stopCh THEN "stopped" ELSE "ready"]
    /\ UNCHANGED <<releasesLister, targetsListers, workqueue, stopCh, events>>
    /\ UNCHANGED <<shifterVars, targetVars, weightVars, objectVars, conditionVars, strategyVars>>

\* The stop channel is closed: Run returns, and its deferred ShutDown runs.
Stop ==
    /\ ~stopCh
    /\ stopCh' = TRUE
    /\ workqueue' = [workqueue EXCEPT !.shuttingDown = TRUE]
    /\ UNCHANGED <<releasesLister, targetsListers, workers, events>>
    /\ UNCHANGED <<shifterVars, targetVars, weightVars, objectVars, conditionVars, strategyVars>>

ControllerNext ==
    \/ \E rel \in ReleaseObjs : ReleaseAdded(rel) \/ ReleaseUpdated(rel)
    \/ \E name \in ReleaseNames : ReleaseDeleted(name)
    \/ \E kind \in TargetKinds, name \in ReleaseNames :
          TargetAddedOrUpdated(kind, name) \/ TargetDeleted(kind, name)
    \/ \E item \in Keys : DelayElapsed(item)
    \/ \E w \in Workers : WorkerGet(w) \/ WorkerSync(w) \/ WorkerDone(w) \/ WorkerRestart(w)
    \/ Stop

(***************************************************************************)
(* TargetObjectsForRelease: the three targets of a release, found by the   *)
(* release label.                                                          *)
(***************************************************************************)
MaxObjects == 2

ObjectKinds == {"InstallationTarget", "TrafficTarget", "CapacityTarget"}

\* The objects of one kind in the namespace: the object at position i is
\* named i and carries the release label items[i]; listFails when the List
\* call of the kind returns an error.
ObjectStores ==
    [items : UNION {[1..n -> Releases] : n \in 0..MaxObjects}, listFails : BOOLEAN]

NilObject == [kind |-> "", name |-> 0, release |-> ""]

NoError == [type |-> "nil", kind |-> "", expected |-> 0, got |-> 0]

\* List(metav1.ListOptions{LabelSelector: selector.String()}) on a kind:
\* the error, and the items matching the release label.
List(store, kind, relName) ==
    IF store[kind].listFails
    THEN [err |-> [type |-> "ListError", kind |-> kind, expected |-> 0, got |-> 0],
          items |-> <<>>]
    ELSE [err |-> NoError,
          items |-> LET names == SelectSeq([i \in DOMAIN store[kind].items |-> i],
                                           LAMBDA i : store[kind].items[i] = relName)
                    IN  [j \in DOMAIN names |->
                            [kind |-> kind, name |-> names[j], release |-> relName]]]

NewUnexpectedObjectCountFromSelectorError(kind, expected, got) ==
    [type |-> "UnexpectedObjectCountFromSelector", kind |-> kind,
     expected |-> expected, got |-> got]

Failed(err) == [it |-> NilObject, tt |-> NilObject, ct |-> NilObject, err |-> err]

\* A faulty TargetObjectsForRelease, which accepts any number of
\* TrafficTargets but none.
TargetObjectsForReleaseLax(relName, store) ==
    LET expectedNumberOfTargetObjects == 1
        itList == List(store, "InstallationTarget", relName)
        ttList == List(store, "TrafficTarget", relName)
        ctList == List(store, "CapacityTarget", relName)
    IN  IF itList.err # NoError THEN Failed(itList.err)
        ELSE IF Len(itList.items) # expectedNumberOfTargetObjects
        THEN Failed(NewUnexpectedObjectCountFromSelectorError(
                 "InstallationTarget", expectedNumberOfTargetObjects, Len(itList.items)))
        ELSE IF ttList.err # NoError THEN Failed(ttList.err)
        ELSE IF Len(ttList.items) < expectedNumberOfTargetObjects
        THEN Failed(NewUnexpectedObjectCountFromSelectorError(
                 "TrafficTarget", expectedNumberOfTargetObjects, Len(itList.items)))
        ELSE IF ctList.err # NoError THEN Failed(ctList.err)
        ELSE IF Len(ctList.items) # expectedNumberOfTargetObjects
        THEN Failed(NewUnexpectedObjectCountFromSelectorError(
                 "CapacityTarget", expectedNumberOfTargetObjects, Len(itList.items)))
        ELSE [it |-> itList.items[1], tt |-> ttList.items[1], ct |-> ctList.items[1],
              err |-> NoError]

TargetObjectsForRelease(relName, store) ==
    LET expectedNumberOfTargetObjects == 1
        itList == List(store, "InstallationTarget", relName)
        ttList == List(store, "TrafficTarget", relName)
        ctList == List(store, "CapacityTarget", relName)
    IN  IF itList.err # NoError THEN Failed(itList.err)
        ELSE IF Len(itList.items) # expectedNumberOfTargetObjects
        THEN Failed(NewUnexpectedObjectCountFromSelectorError(
                 "InstallationTarget", expectedNumberOfTargetObjects, Len(itList.items)))
        ELSE IF ttList.err # NoError THEN Failed(ttList.err)
        ELSE IF Len(ttList.items) # expectedNumberOfTargetObjects
        THEN Failed(NewUnexpectedObjectCountFromSelectorError(
                 "TrafficTarget", expectedNumberOfTargetObjects, Len(itList.items)))
        ELSE IF ctList.err # NoError THEN Failed(ctList.err)
        ELSE IF Len(ctList.items) # expectedNumberOfTargetObjects
        THEN Failed(NewUnexpectedObjectCountFromSelectorError(
                 "CapacityTarget", expectedNumberOfTargetObjects, Len(itList.items)))
        ELSE [it |-> itList.items[1], tt |-> ttList.items[1], ct |-> ctList.items[1],
              err |-> NoError]

NoCall == [state |-> "none", relName |-> "", it |-> NilObject, tt |-> NilObject,
           ct |-> NilObject, err |-> NoError]

ObjectsInit ==
    /\ apiObjects \in [ObjectKinds -> ObjectStores]
    /\ targetObjects = NoCall

ObjectsIdle ==
    /\ apiObjects = [k \in ObjectKinds |-> [items |-> <<>>, listFails |-> FALSE]]
    /\ targetObjects = NoCall

GetTargetObjects(relName) ==
    /\ targetObjects.state = "none"
    /\ LET got == TargetObjectsForRelease(relName, apiObjects)
       IN  targetObjects' = [state |-> "returned", relName |-> relName, it |-> got.it,
                             tt |-> got.tt, ct |-> got.ct, err |-> got.err]
    /\ UNCHANGED apiObjects
    /\ UNCHANGED <<shifterVars, targetVars, weightVars, controllerVars, conditionVars, strategyVars>>

(***************************************************************************)
(* The conditions of a release status: SetReleaseCondition and what it     *)
(* calls.                                                                  *)
(***************************************************************************)
MaxTime == 2

MaxSetCalls == 4

\* shipper.ReleaseConditionType values, and their order as strings.
ReleaseConditionTypes == <<"Complete", "Scheduled", "StrategyExecuted">>

TypeRank(t) == CHOOSE i \in DOMAIN ReleaseConditionTypes : ReleaseConditionTypes[i] = t

\* status.Conditions[i].Type < status.Conditions[j].Type
TypeLess(a, b) == TypeRank(a) < TypeRank(b)

ConditionStatuses == {"True", "False"}

Reasons == {"", "StepComplete"}

Messages == {"", "message"}

\* The conditions a caller can pass: LastTransitionTime is the time the
\* caller made the condition at.
ReleaseConditions ==
    [type : {ReleaseConditionTypes[i] : i \in DOMAIN ReleaseConditionTypes},
     status : ConditionStatuses, reason : Reasons, message : Messages,
     lastTransitionTime : 1..MaxTime]

\* A nil *shipper.ReleaseCondition.
NilCondition ==
    [type |-> "nil", status |-> "", reason |-> "", message |-> "",
     lastTransitionTime |-> 0]

\* A faulty IsEmpty, which compares the transition times as well.
IsEmptyComparingTime(c1, c2) ==
    IF c1 = NilCondition /\ c2 = NilCondition THEN TRUE
    ELSE IF c1 = NilCondition \/ c2 = NilCondition THEN FALSE
    ELSE c1 = c2

\* ReleaseConditionDiff.IsEmpty of the diff of c1 and c2
IsEmpty(c1, c2) ==
    IF c1 = NilCondition /\ c2 = NilCondition THEN TRUE
    ELSE IF c1 = NilCondition \/ c2 = NilCondition THEN FALSE
    ELSE /\ c1.type = c2.type
         /\ c1.status = c2.status
         /\ c1.reason = c2.reason
         /\ c1.message = c2.message

RECURSIVE FirstOfType(_, _, _)
FirstOfType(conditions, condType, i) ==
    IF i > Len(conditions) THEN NilCondition
    ELSE IF conditions[i].type = condType THEN conditions[i]
    ELSE FirstOfType(conditions, condType, i + 1)

GetReleaseCondition(st, condType) == FirstOfType(st.conditions, condType, 1)

\* A faulty filterOutCondition, which drops nothing.
filterOutNothing(conditions, condType) == conditions

filterOutCondition(conditions, condType) ==
    SelectSeq(conditions, LAMBDA c : c.type # condType)

\* conditions with c inserted before the first condition of a greater type.
RECURSIVE Insert(_, _)
Insert(conditions, c) ==
    IF conditions = <<>> THEN <<c>>
    ELSE IF TypeLess(c.type, Head(conditions).type) THEN <<c>> \o conditions
    ELSE <<Head(conditions)>> \o Insert(Tail(conditions), c)

\* sort.Slice by Type: the conditions of a status never have equal types
\* when it is called, so the order it yields is determined.
RECURSIVE SortByType(_)
SortByType(conditions) ==
    IF conditions = <<>> THEN <<>>
    ELSE Insert(SortByType(SubSeq(conditions, 1, Len(conditions) - 1)),
                conditions[Len(conditions)])

\* A faulty choice of the transition time, which always takes the new one.
TransitionTimeOfNew(currentCond, condition) == condition.lastTransitionTime

\* The LastTransitionTime of the condition that is stored.
TransitionTime(currentCond, condition) ==
    IF currentCond # NilCondition /\ currentCond.status = condition.status
    THEN currentCond.lastTransitionTime
    ELSE condition.lastTransitionTime

\* SetReleaseCondition: the status after the call, and whether it returned
\* nil.
SetReleaseCondition(st, condition) ==
    LET currentCond == GetReleaseCondition(st, condition.type)
    IN  IF IsEmpty(currentCond, condition)
        THEN [status |-> st, diffIsNil |-> TRUE]
        ELSE LET stored == [condition EXCEPT !.lastTransitionTime =
                                                 TransitionTime(currentCond, condition)]
                 newConditions == filterOutCondition(st.conditions, condition.type)
             IN  [status |-> [conditions |-> SortByType(Append(newConditions, stored))],
                  diffIsNil |-> FALSE]

ConditionsInit ==
    /\ releaseStatus = [conditions |-> <<>>]
    /\ setCalls = 0
    /\ returnedDiff = "none"

ConditionsIdle == ConditionsInit

SetCondition(condition) ==
    /\ setCalls < MaxSetCalls
    /\ LET set == SetReleaseCondition(releaseStatus, condition)
       IN  /\ releaseStatus' = set.status
           /\ returnedDiff' = IF set.diffIsNil THEN "nil" ELSE "diff"
    /\ setCalls' = setCalls + 1
    /\ UNCHANGED <<shifterVars, targetVars, weightVars, controllerVars, objectVars, strategyVars>>

\* RemoveReleaseCondition: status is passed by value, so the assignment to
\* status.Conditions changes the function's copy (local) and the caller's
\* status stays as it was.
RemoveReleaseCondition(st, condType) ==
    [local |-> [st EXCEPT !.conditions = filterOutCondition(st.conditions, condType)],
     caller |-> st]

\* A caller removes the condition of a type from the release's status.
RemoveCondition(condType) ==
    /\ setCalls < MaxSetCalls
    /\ releaseStatus' = RemoveReleaseCondition(releaseStatus, condType).caller
    /\ returnedDiff' = "none"
    /\ setCalls' = setCalls + 1
    /\ UNCHANGED <<shifterVars, targetVars, weightVars, controllerVars, objectVars, strategyVars>>

(***************************************************************************)
(* The strategy executor and the application of its results by syncOne.    *)
(***************************************************************************)
\* The strategy of the release: one declaration of the four percentages
\* per step.  Steps are numbered from 0.
Strategy ==
    << [contenderCap |-> 100, contenderTraffic |-> 0,
        incumbentCap |-> 100, incumbentTraffic |-> 100],
       [contenderCap |-> 100, contenderTraffic |-> 100,
        incumbentCap |-> 0,   incumbentTraffic |-> 0] >>

LastStep == Len(Strategy) - 1

\* status.achievedStep of a release no step of which was completed.
NoAchievedStep == 0 - 1

Sides == {"contender", "incumbent"}
PatchedKinds == {"CapacityTarget", "TrafficTarget"}

\* The status a result for a target object carries: none.
NoStatus == [achievedStep |-> NoAchievedStep, phase |-> "", strategy |-> "",
             strategyExecuted |-> ""]

\* A result: the object to patch (kind and name) and the patch, which sets
\* the percentage of every declared cluster of a target object, or the
\* status of a release.
Result(kind, name, percent, status) ==
    [kind |-> kind, name |-> name, percent |-> percent, status |-> status]

\* targetStep clamped to [0, len(strategy)-1].
ActiveStep(targetStep) ==
    IF targetStep < 0 THEN 0
    ELSE IF targetStep > LastStep THEN LastStep
    ELSE targetStep

Declared(ro, side, kind) ==
    LET step == Strategy[ActiveStep(ro.targetStep) + 1]
    IN  IF side = "contender"
        THEN IF kind = "CapacityTarget" THEN step.contenderCap ELSE step.contenderTraffic
        ELSE IF kind = "CapacityTarget" THEN step.incumbentCap ELSE step.incumbentTraffic

\* The observed values of a target object match the step's declaration.
Matches(ro, side, kind) ==
    \A c \in Clusters : ro.observed[<<side, kind>>][c] = Declared(ro, side, kind)

\* The patch of a target object's spec: none when the spec already equals
\* the declaration.
TargetPatch(ro, side, kind) ==
    IF \A c \in Clusters : ro.spec[<<side, kind>>][c] = Declared(ro, side, kind)
    THEN <<>>
    ELSE <<Result(kind, side, Declared(ro, side, kind), NoStatus)>>

\* The patch of the contender's status: none when nothing changes.
StatusPatch(ro, status) ==
    IF status = ro.status THEN <<>>
    ELSE <<Result("Release", "contender", 0, status)>>

\* The patch that retires the incumbent.
IncumbentPatch(ro) ==
    IF ro.hasIncumbent /\ ro.incumbentPhase # "Aborted"
    THEN <<Result("Release", "incumbent", 0, [NoStatus EXCEPT !.phase = "Aborted"])>>
    ELSE <<>>

\* The gate of one target object: the side has the object, and what is
\* observed of it differs from the declaration.
Waiting(ro, side, kind) ==
    /\ side = "incumbent" => ro.hasIncumbent
    /\ ~Matches(ro, side, kind)

\* The exit at a gate: the patch of the target object, and the Strategy
\* condition with the reason for waiting.
WaitFor(ro, side, kind, reason) ==
    TargetPatch(ro, side, kind) \o StatusPatch(ro, [ro.status EXCEPT !.strategy = reason])

\* Step completion.
Complete(ro) ==
    LET step == ActiveStep(ro.targetStep)
        status == [achievedStep |-> step,
                   phase |-> IF step < LastStep THEN "WaitingForCommand" ELSE "Installed",
                   strategy |-> "Complete",
                   strategyExecuted |-> "StepComplete"]
    IN  StatusPatch(ro, status) \o (IF step < LastStep THEN <<>> ELSE IncumbentPatch(ro))

\* execute with the traffic gates before the capacity gates.
executeTrafficFirst(ro) ==
    IF \E c \in Clusters : ~ro.ready[c]
    THEN StatusPatch(ro, [ro.status EXCEPT !.strategy = "WaitingForInstallation",
                                           !.strategyExecuted = "StrategyExecutionFailed"])
    ELSE IF Waiting(ro, "contender", "TrafficTarget")
    THEN WaitFor(ro, "contender", "TrafficTarget", "WaitingForTraffic")
    ELSE IF Waiting(ro, "incumbent", "TrafficTarget")
    THEN WaitFor(ro, "incumbent", "TrafficTarget", "WaitingForTraffic")
    ELSE IF Waiting(ro, "contender", "CapacityTarget")
    THEN WaitFor(ro, "contender", "CapacityTarget", "WaitingForCapacity")
    ELSE IF Waiting(ro, "incumbent", "CapacityTarget")
    THEN WaitFor(ro, "incumbent", "CapacityTarget", "WaitingForCapacity")
    ELSE Complete(ro)

\* execute: the results of one reconcile.
execute(ro) ==
    IF \E c \in Clusters : ~ro.ready[c]
    THEN StatusPatch(ro, [ro.status EXCEPT !.strategy = "WaitingForInstallation",
                                           !.strategyExecuted = "StrategyExecutionFailed"])
    ELSE IF Waiting(ro, "contender", "CapacityTarget")
    THEN WaitFor(ro, "contender", "CapacityTarget", "WaitingForCapacity")
    ELSE IF Waiting(ro, "incumbent", "CapacityTarget")
    THEN WaitFor(ro, "incumbent", "CapacityTarget", "WaitingForCapacity")
    ELSE IF Waiting(ro, "contender", "TrafficTarget")
    THEN WaitFor(ro, "contender", "TrafficTarget", "WaitingForTraffic")
    ELSE IF Waiting(ro, "incumbent", "TrafficTarget")
    THEN WaitFor(ro, "incumbent", "TrafficTarget", "WaitingForTraffic")
    ELSE Complete(ro)

\* client.Patch(name, types.MergePatchType, b) as the API server applies it.
Patch(ro, r) ==
    IF r.kind \in PatchedKinds
    THEN [ro EXCEPT !.spec[<<r.name, r.kind>>] = [c \in Clusters |-> r.percent]]
    ELSE IF r.name = "contender"
    THEN [ro EXCEPT !.status = r.status]
    ELSE [ro EXCEPT !.incumbentPhase = r.status.phase]

\* The results of one reconcile one of which can fail.
MaxResults == 2

NoReconcile == [results |-> <<>>, calls |-> <<>>, err |-> Nil]

\* The loop going on to the later results after a failure, and returning
\* the error of the first.
RECURSIVE ApplyResultsContinuing(_, _, _, _, _, _)
ApplyResultsContinuing(ro, results, i, calls, failAt, failKind) ==
    IF i > Len(results)
    THEN [rollout |-> ro, calls |-> calls,
          err |-> IF failAt \in 1..Len(results) THEN failKind ELSE Nil]
    ELSE IF i = failAt /\ failKind = "ClientError"
    THEN ApplyResultsContinuing(ro, results, i + 1, calls, failAt, failKind)
    ELSE IF i = failAt
    THEN ApplyResultsContinuing(ro, results, i + 1, Append(calls, i), failAt, failKind)
    ELSE ApplyResultsContinuing(Patch(ro, results[i]), results, i + 1, Append(calls, i),
                                failAt, failKind)

\* syncOne's loop over the results, from result i on: result failAt, if
\* any, fails as failKind says.  calls lists the results client.Patch was
\* called with, by their position in results.
RECURSIVE ApplyResults(_, _, _, _, _, _)
ApplyResults(ro, results, i, calls, failAt, failKind) ==
    IF i > Len(results)
    THEN [rollout |-> ro, calls |-> calls, err |-> Nil]
    ELSE IF i = failAt /\ failKind = "ClientError"
    THEN [rollout |-> ro, calls |-> calls, err |-> "ClientError"]
    ELSE IF i = failAt
    THEN [rollout |-> ro, calls |-> Append(calls, i), err |-> "PatchError"]
    ELSE ApplyResults(Patch(ro, results[i]), results, i + 1, Append(calls, i),
                      failAt, failKind)

StrategyInit ==
    /\ rollout \in
         { [targetStep |-> 0,
            status |-> [achievedStep |-> NoAchievedStep, phase |-> "WaitingForCommand",
                        strategy |-> "", strategyExecuted |-> ""],
            hasIncumbent |-> incumbent,
            incumbentPhase |-> IF incumbent THEN "Installed" ELSE "",
            ready |-> [c \in Clusters |-> FALSE],
            spec |-> [t \in Sides \X PatchedKinds |->
                         [c \in Clusters |-> IF t[1] = "incumbent" /\ incumbent
                                             THEN 100 ELSE 0]],
            observed |-> [t \in Sides \X PatchedKinds |->
                             [c \in Clusters |-> IF t[1] = "incumbent" /\ incumbent
                                                 THEN 100 ELSE 0]]]
           : incumbent \in BOOLEAN }
    /\ reconcile = NoReconcile

StrategyIdle ==
    /\ rollout = Nil
    /\ reconcile = NoReconcile

\* The installation controller reports a cluster ready and operational.
InstallationReady(c) ==
    /\ ~rollout.ready[c]
    /\ rollout' = [rollout EXCEPT !.ready[c] = TRUE]
    /\ reconcile' = NoReconcile
    /\ UNCHANGED <<shifterVars, targetVars, weightVars, controllerVars, objectVars, conditionVars>>

\* The capacity or traffic controller brings a cluster to the spec of a
\* target object and reports it.
Observe(side, kind, c) ==
    /\ side = "incumbent" => rollout.hasIncumbent
    /\ rollout.observed[<<side, kind>>][c] # rollout.spec[<<side, kind>>][c]
    /\ rollout' = [rollout EXCEPT !.observed[<<side, kind>>][c] = rollout.spec[<<side, kind>>][c]]
    /\ reconcile' = NoReconcile
    /\ UNCHANGED <<shifterVars, targetVars, weightVars, controllerVars, objectVars, conditionVars>>

\* A human or automation sets spec.targetStep.
SetTargetStep(step) ==
    /\ step # rollout.targetStep
    /\ rollout' = [rollout EXCEPT !.targetStep = step,
                                  !.status.phase = "WaitingForStrategy"]
    /\ reconcile' = NoReconcile
    /\ UNCHANGED <<shifterVars, targetVars, weightVars, controllerVars, objectVars, conditionVars>>

\* syncOne on the release: strategy.execute, then the results applied.
Reconcile(executeFails, failAt, failKind) ==
    /\ IF executeFails
       THEN /\ failAt = 0 /\ failKind = "PatchError"
            /\ rollout' = rollout
            /\ reconcile' = [results |-> <<>>, calls |-> <<>>, err |-> "ExecuteError"]
       ELSE LET result == execute(rollout)
                applied == ApplyResults(rollout, result, 1, <<>>, failAt, failKind)
            IN  /\ failAt <= Len(result)
                /\ failAt = 0 => failKind = "PatchError"
                /\ rollout' = applied.rollout
                /\ reconcile' = [results |-> result, calls |-> applied.calls,
                                 err |-> applied.err]
    /\ UNCHANGED <<shifterVars, targetVars, weightVars, controllerVars, objectVars, conditionVars>>

(***************************************************************************)
(* The specifications.                                                     *)
(***************************************************************************)
\* The pod label shifter, called for one cluster after another.
Init == ShifterInit /\ TargetIdle /\ WeightsIdle /\ ControllerIdle /\ ObjectsIdle /\ ConditionsIdle
    /\ StrategyIdle

Next == \E cluster \in Clusters : SyncCluster(cluster)

Spec == Init /\ [][Next]_vars

\* A call in which no List call and no Patch call fails.
CleanSync(cluster) ==
    \E order \in ListOrders(ReleasesOf(cluster)) :
    \E lists \in ReleaseLists(cluster) :
        SyncClusterWith(cluster, "none", order, 0, lists, {})

\* The shifter called again and again for the cluster it has weights for,
\* where a call in which nothing fails is eventually made.
FairSpec == Init /\ [][Next]_vars /\ WF_vars(CleanSync("c1"))

\* calculateReleasePodTarget called once on any arguments.
InitTarget == ShifterIdle /\ TargetInit /\ WeightsIdle /\ ControllerIdle /\ ObjectsIdle /\ ConditionsIdle
    /\ StrategyIdle

NextTarget == CalculateReleasePodTarget

SpecTarget == InitTarget /\ [][NextTarget]_vars

\* newPodLabelShifter called once on any list of TrafficTargets.
InitWeights == ShifterIdle /\ TargetIdle /\ WeightsInit /\ ControllerIdle /\ ObjectsIdle /\ ConditionsIdle
    /\ StrategyIdle

NextWeights == newPodLabelShifter

SpecWeights == InitWeights /\ [][NextWeights]_vars

\* The strategy controller running.
InitController == ShifterIdle /\ TargetIdle /\ WeightsIdle /\ ControllerInit /\ ObjectsIdle /\ ConditionsIdle
    /\ StrategyIdle

NextController == ControllerNext

SpecController == InitController /\ [][NextController]_vars

\* TargetObjectsForRelease called once, whatever the API server holds.
InitObjects ==
    ShifterIdle /\ TargetIdle /\ WeightsIdle /\ ControllerIdle /\ ObjectsInit /\ ConditionsIdle
    /\ StrategyIdle

NextObjects == \E relName \in Releases : GetTargetObjects(relName)

SpecObjects == InitObjects /\ [][NextObjects]_vars

\* SetReleaseCondition called again and again on a status that starts empty.
InitConditions ==
    ShifterIdle /\ TargetIdle /\ WeightsIdle /\ ControllerIdle /\ ObjectsIdle /\ ConditionsInit
    /\ StrategyIdle

NextConditions ==
    \/ \E condition \in ReleaseConditions : SetCondition(condition)
    \/ \E i \in DOMAIN ReleaseConditionTypes : RemoveCondition(ReleaseConditionTypes[i])

SpecConditions == InitConditions /\ [][NextConditions]_vars

\* One release reconciled again and again while its targets converge and
\* its target step is set.
InitStrategy ==
    ShifterIdle /\ TargetIdle /\ WeightsIdle /\ ControllerIdle /\ ObjectsIdle /\ ConditionsIdle
    /\ StrategyInit

NextStrategy ==
    \/ \E c \in Clusters : InstallationReady(c)
    \/ \E side \in Sides, kind \in PatchedKinds, c \in Clusters : Observe(side, kind, c)
    \/ \E step \in 0..Len(Strategy) : SetTargetStep(step)
    \/ \E executeFails \in BOOLEAN, failAt \in 0..MaxResults,
          failKind \in {"ClientError", "PatchError"} :
           Reconcile(executeFails, failAt, failKind)

SpecStrategy == InitStrategy /\ [][NextStrategy]_vars

(***************************************************************************)
(* What the properties of SyncCluster are stated with.                     *)
(***************************************************************************)
\* The last call returned without a fatal error.
Completed == out.state = "returned" /\ out.fatal = Nil

\* The production service exists, alone, with a selector.
ServiceUsable == Len(services) = 1 /\ ~services[1].selectorIsNil

\* Its selector asks for traffic-status=enabled.
SelectsEnabled ==
    /\ ServiceUsable
    /\ PodTrafficStatusLabel \in DOMAIN services[1].selector
    /\ services[1].selector[PodTrafficStatusLabel] = Enabled

ReleasePodsNow(r) == PodsWith(pods, (ReleaseLabel :> r))

TrafficPodsNow(r) == {n \in ReleasePodsNow(r) : getsTraffic(pods[n], services[1].selector)}

EnabledPodsNow(r) ==
    {n \in ReleasePodsNow(r) :
        PodTrafficStatusLabel \in DOMAIN pods[n] /\ pods[n][PodTrafficStatusLabel] = Enabled}

TotalPodsNow == Cardinality(PodsWith(pods, (AppLabel :> appName)))

TotalWeightOf(cluster) ==
    SumWeights(clusterReleaseWeights[cluster], DOMAIN clusterReleaseWeights[cluster])

TargetNow(r) ==
    podTargets[Cardinality(ReleasePodsNow(r)), clusterReleaseWeights["c1"][r],
               TotalPodsNow, TotalWeightOf("c1")]

CallsOf(o, r) == o.seen[r].calls

FailedCallsOf(o, r) == SelectSeq(CallsOf(o, r), LAMBDA c : ~c.ok)

AllCalls(o) == UNION {{CallsOf(o, r)[i] : i \in DOMAIN CallsOf(o, r)} : r \in Releases}

NoCallFailed(o) == \A c \in AllCalls(o) : c.ok

Abs(x) == IF x < 0 THEN -x ELSE x

ErrorPods(o) == {o.errors[i].pod : i \in DOMAIN o.errors}

FailedPods(o) == {c.pod : c \in {d \in AllCalls(o) : ~d.ok}}

\* Every release of the table has as many pods receiving traffic as its
\* target.
Converged ==
    /\ ServiceUsable
    /\ \A r \in ReleasesOf("c1") : Cardinality(TrafficPodsNow(r)) = TargetNow(r)

(***************************************************************************)
(* C2.  SyncCluster is idempotent: after a call that completed with no pod *)
(* patch failing, the next call sends no pod patch.                        *)
(***************************************************************************)
C2_SecondRunSendsNoPatch ==
    [][(Completed /\ NoCallFailed(out)) => (AllCalls(out) = {})']_vars

(***************************************************************************)
(* C3.  As stated: whenever the shifter can run, repeated calls reach a    *)
(* state where every release has as many pods receiving traffic as its     *)
(* target, and stay there.                                                 *)
(***************************************************************************)
C3_ConvergesWithAnySelector == ServiceUsable => <>[]Converged

\* C3, amended: when the production service selects on
\* traffic-status=enabled, repeated calls reach such a state, and no later
\* call changes a pod.
C3_ConvergesWhenSelectingEnabled ==
    /\ SelectsEnabled => <>[]Converged
    /\ [][(SelectsEnabled /\ Converged) => pods' = pods]_vars

\* A call has sent patches and left every release at its target.
C3_Witness == SelectsEnabled /\ Completed /\ AllCalls(out) # {} /\ Converged

(***************************************************************************)
(* C4.  As stated: after a call, each release it handled has as many pods  *)
(* labelled traffic-status=enabled as its target, give or take the pods    *)
(* whose patch failed, and those are the pods of the returned error list.  *)
(***************************************************************************)
NoPhantomLabels(rs) ==
    /\ \A r \in rs :
          Cardinality(EnabledPodsNow(r)) =
              IF out.seen[r].trafficPods > out.seen[r].targetPods
              THEN out.seen[r].targetPods + Len(FailedCallsOf(out, r))
              ELSE out.seen[r].targetPods - Len(FailedCallsOf(out, r))
    /\ ErrorPods(out) = FailedPods(out)
    /\ Len(out.errors) = Cardinality(FailedPods(out))

C4_NoPhantomLabelsAfterAnyRun ==
    out.state = "returned" => NoPhantomLabels({r \in Releases : out.seen[r].listed})

\* C4, amended: it holds after a call that returns no fatal error, when the
\* production service selects on traffic-status=enabled.
C4_NoPhantomLabels ==
    (Completed /\ SelectsEnabled) => NoPhantomLabels(ReleasesOf(out.cluster))

\* A call in which one patch failed and another succeeded.
C4_Witness ==
    /\ Completed /\ SelectsEnabled
    /\ \E c, d \in AllCalls(out) : c.ok /\ ~d.ok

(***************************************************************************)
(* C5.  Patch minimality: a patch is sent only to a pod whose              *)
(* traffic-status label (absent, enabled or disabled) differs from the     *)
(* value written; a release gets at most | |traffic pods| - target |       *)
(* patches, all to pods among the first of the traffic list (shrink) or    *)
(* idle list (grow); a release already at its target gets none.            *)
(***************************************************************************)
C5_PatchMinimality ==
    \A r \in Releases :
        LET seen == out.seen[r]
            n == Abs(seen.trafficPods - seen.targetPods)
            shrink == seen.trafficPods > seen.targetPods
        IN  /\ Len(seen.calls) <= n
            /\ \A i \in DOMAIN seen.calls :
                  LET c == seen.calls[i]
                  IN  /\ c.index <= n
                      /\ \A j \in DOMAIN seen.calls : j # i => seen.calls[j].pod # c.pod
                      /\ c.before[ReleaseLabel] = r
                      /\ (PodTrafficStatusLabel \notin DOMAIN c.before
                          \/ c.before[PodTrafficStatusLabel] # c.patch.value)
                      /\ c.patch.value = (IF shrink THEN Disabled ELSE Enabled)
                      /\ getsTraffic(c.before, services[1].selector) = shrink

\* A call that had to take two pods of a release out of traffic and patched
\* only the one whose label was not disabled already.
C5_Witness ==
    \E r \in Releases :
        /\ Completed
        /\ out.seen[r].trafficPods - out.seen[r].targetPods = 2
        /\ Len(out.seen[r].calls) = 1

(***************************************************************************)
(* C7.  The achieved weight reported for a release is                      *)
(* round(finalTrafficPods / totalPods * totalWeight), whether or not a pod *)
(* was patched.                                                            *)
(***************************************************************************)
C7_AchievedWeightIsRounded ==
    (Completed /\ out.totalPods > 0) =>
        \A r \in ReleasesOf(out.cluster) :
            out.achievedWeights[r] =
                achievedWeights[Cardinality(TrafficPodsNow(r)), out.totalPods,
                                TotalWeightOf(out.cluster)]

(***************************************************************************)
(* C8.  As stated: when the weights of a cluster sum to 0, a call sends no *)
(* pod patch.                                                              *)
(***************************************************************************)
ZeroWeightRun ==
    /\ Completed
    /\ TotalWeightOf(out.cluster) = 0

C9_DegradedNotFatal ==
    out.state = "returned" =>
        IF out.fatal # Nil
        THEN out.resultsNil /\ out.achievedWeights = NoWeights /\ out.errors = <<>>
        ELSE /\ ~out.resultsNil
             /\ ErrorPods(out) = FailedPods(out)
             /\ Len(out.errors) = Cardinality(FailedPods(out))
             /\ \A i \in DOMAIN out.errors : out.errors[i].kind = "TrafficModifyingLabel"
             /\ \A r \in ReleasesOf(out.cluster) :
                   LET seen == out.seen[r]
                       n == Abs(seen.trafficPods - seen.targetPods)
                       moved == n - Len(FailedCallsOf(out, r))
                   IN  /\ seen.listed
                       /\ SelectsEnabled => Len(seen.calls) = n
                       /\ out.achievedWeights[r] =
                             IF n = 0 THEN clusterReleaseWeights[out.cluster][r]
                             ELSE achievedWeights[
                                     IF seen.trafficPods > seen.targetPods
                                     THEN seen.trafficPods - moved
                                     ELSE seen.trafficPods + moved,
                                     out.totalPods, TotalWeightOf(out.cluster)]

\* A call in which the patch of the first selected pod of a release failed,
\* the patch of the second succeeded, and the other release was handled.
C9_Witness ==
    /\ Completed
    /\ \A r \in Releases : out.seen[r].listed
    /\ \E r \in Releases :
          /\ Len(out.seen[r].calls) = 2
          /\ ~out.seen[r].calls[1].ok
          /\ out.seen[r].calls[2].ok

(***************************************************************************)
(* C6.  For totalWeight > 0, calculateReleasePodTarget returns             *)
(* min(releasePods, ceil(totalPods * weight / totalWeight)), which is      *)
(* never negative and never more than releasePods.                         *)
(***************************************************************************)
CeilDiv(a, b) == (a + b - 1) \div b

C6_TargetIsClampedCeiling ==
    (calc.targetPods # NoTarget /\ calc.totalWeight > 0) =>
        /\ calc.targetPods =
               Min(calc.releasePods,
                   CeilDiv(calc.totalPods * calc.releaseWeight, calc.totalWeight))
        /\ calc.targetPods >= 0
        /\ calc.targetPods <= calc.releasePods

(***************************************************************************)
(* C10.  As stated: buildClusterReleaseWeights returns an error and no     *)
(* table iff a TrafficTarget has no release label or two TrafficTargets    *)
(* have the same release label; otherwise table[cluster][release] is the   *)
(* sum of the weights the release's TrafficTarget lists for the cluster,   *)
(* and the table has an entry only for the clusters a TrafficTarget names. *)
(***************************************************************************)
MissingReleaseLabel ==
    \E i \in DOMAIN trafficTargets : ReleaseLabel \notin DOMAIN trafficTargets[i].labels

DuplicateRelease ==
    \E i, j \in DOMAIN trafficTargets :
        /\ i # j
        /\ ReleaseLabel \in DOMAIN trafficTargets[i].labels
        /\ ReleaseLabel \in DOMAIN trafficTargets[j].labels
        /\ trafficTargets[i].labels[ReleaseLabel] = trafficTargets[j].labels[ReleaseLabel]

Names(tt, c) == \E j \in DOMAIN tt.clusters : tt.clusters[j].name = c

\* a + b, not cut to 32 bits.
AddWide(a, b) ==
    [hi |-> a.hi + b.hi + ((a.lo + b.lo) \div Limb), lo |-> (a.lo + b.lo) % Limb]

\* The sum of the weights tt lists for cluster c, from entry j on.
RECURSIVE ListedWeight(_, _, _)
ListedWeight(tt, c, j) ==
    IF j > Len(tt.clusters) THEN U32(0)
    ELSE AddWide(IF tt.clusters[j].name = c THEN tt.clusters[j].weight ELSE U32(0),
                 ListedWeight(tt, c, j + 1))

Modulo32(a) == [hi |-> a.hi % Limb, lo |-> a.lo]

TableIsSums(modulo) ==
    LET table == shifter.clusterReleaseWeights
        named == {c \in Clusters : \E i \in DOMAIN trafficTargets : Names(trafficTargets[i], c)}
    IN  /\ DOMAIN table = named
        /\ \A c \in named :
              /\ DOMAIN table[c] =
                     {trafficTargets[i].labels[ReleaseLabel] :
                          i \in {k \in DOMAIN trafficTargets : Names(trafficTargets[k], c)}}
              /\ \A i \in DOMAIN trafficTargets :
                    Names(trafficTargets[i], c) =>
                        table[c][trafficTargets[i].labels[ReleaseLabel]] =
                            IF modulo THEN Modulo32(ListedWeight(trafficTargets[i], c, 1))
                            ELSE ListedWeight(trafficTargets[i], c, 1)

WeightsBuilt(modulo) ==
    shifter.state = "returned" =>
        /\ (shifter.err # Nil) <=> (MissingReleaseLabel \/ DuplicateRelease)
        /\ shifter.err # Nil => shifter.isNil
        /\ shifter.err = Nil => (~shifter.isNil /\ TableIsSums(modulo))

C10_TableOfSums == WeightsBuilt(FALSE)

\* C10, amended: the weights are uint32 and so is their sum: table[cluster]
\* [release] is the sum modulo 2^32.
C10_TableOfSumsModulo == WeightsBuilt(TRUE)

\* Two TrafficTargets, the first listing the same cluster twice, with weights
\* whose sum does not fit 32 bits; the table was built.
C10_Witness ==
    /\ shifter.state = "returned" /\ shifter.err = Nil
    /\ Len(trafficTargets) = 2
    /\ Len(trafficTargets[1].clusters) = 2
    /\ trafficTargets[1].clusters[1].name = trafficTargets[1].clusters[2].name
    /\ trafficTargets[1].clusters[1].weight.hi + trafficTargets[1].clusters[2].weight.hi = Limb

(***************************************************************************)
(* C11.  buildClusterReleaseWeights is invariant under reordering its      *)
(* input: called with any permutation of the list it was called with, it   *)
(* fails iff the call made failed, and when both succeed it returns the     *)
(* same cluster -> release -> weight table.                                 *)
(***************************************************************************)
Permuted(tts, p) == [i \in DOMAIN tts |-> tts[p[i]]]

Reorderings(tts) == {Permuted(tts, p) : p \in Permutations(DOMAIN tts)}

C11_OrderInvariant ==
    shifter.state = "returned" =>
        \A tts \in Reorderings(trafficTargets) :
            LET again == buildClusterReleaseWeights(tts)
            IN  /\ (again.err = Nil) = (shifter.err = Nil)
                /\ again.isNil = shifter.isNil
                /\ again.err = Nil => again.table = shifter.clusterReleaseWeights

\* A table built from two TrafficTargets of different releases that list the
\* same cluster with different weights.
C11_Witness ==
    /\ shifter.state = "returned" /\ shifter.err = Nil
    /\ Len(trafficTargets) = 2
    /\ \E c \in DOMAIN shifter.clusterReleaseWeights :
           /\ DOMAIN shifter.clusterReleaseWeights[c] = Releases
           /\ shifter.clusterReleaseWeights[c]["r1"] # shifter.clusterReleaseWeights[c]["r2"]

(***************************************************************************)
(* C12.  Whatever the number of workers and the interleaving of events, no *)
(* two workers are syncing the same key at the same time: a key added      *)
(* again while a worker processes it is only marked dirty, and is queued    *)
(* (so that a worker can get it) when that worker has called Done.          *)
(***************************************************************************)
InFlight(w) == workers[w].pc \in {"syncing", "deferred"}

Queued == {workqueue.queue[i] : i \in DOMAIN workqueue.queue}

C12_OneWorkerPerKey ==
    /\ \A w1, w2 \in Workers :
           (w1 # w2 /\ InFlight(w1) /\ InFlight(w2)) => workers[w1].key # workers[w2].key
    /\ \A w \in Workers :
           InFlight(w) => (workers[w].key \in workqueue.processing
                           /\ workers[w].key \notin Queued)

\* A key was added again while a worker is syncing it, and another worker is
\* waiting for an item.
C12_Witness ==
    \E w1, w2 \in Workers :
        /\ workers[w1].pc = "syncing" /\ workers[w1].key \in workqueue.dirty
        /\ workers[w2].pc = "ready"

(***************************************************************************)
(* C13.  Every key the event handlers add to the work queue is the         *)
(* namespace/name of a release that the handler read in phase              *)
(* WaitingForCommand or WaitingForStrategy; an event of a release in       *)
(* another phase, the redirect of an Installed release to its contender    *)
(* apart, and an event of a target whose same-named release is not in the  *)
(* cache, add nothing.                                                     *)
(***************************************************************************)
\* The step called AddRateLimited(key): the rate limiter counted the key.
Enqueued(key) == workqueue'.failures[key] = workqueue.failures[key] + 1

StrategyPhases == {"WaitingForCommand", "WaitingForStrategy"}

EventStep == events' = events + 1

C13_OnlyStrategyPhasesEnqueued ==
    [][(\A key \in Keys :
           (EventStep /\ Enqueued(key)) =>
               (\E r \in releasesLister' :
                   <<r.namespace, r.name>> = key /\ r.phase \in StrategyPhases))
       /\ (\A rel \in ReleaseObjs :
              (EventStep /\ rel.phase \notin StrategyPhases \cup {"Installed"}
               /\ (ReleaseAdded(rel) \/ ReleaseUpdated(rel)))
                  => workqueue' = workqueue)
       /\ (\A kind \in TargetKinds, name \in ReleaseNames :
              (EventStep
               /\ (\A s \in GetRelease(releasesLister, Namespace, name) :
                      s.phase \notin StrategyPhases \cup {"Installed"})
               /\ TargetAddedOrUpdated(kind, name))
                  => workqueue' = workqueue)]_vars

\* The key of release b has been enqueued, while release a, which is waiting
\* for scheduling and has its installation target, has not.
C13_Witness ==
    /\ <<Namespace, "b">> \in workqueue.waiting
    /\ \E r \in releasesLister : r.name = "a" /\ r.phase = "WaitingForScheduling"
    /\ "a" \in targetsListers["InstallationTarget"]
    /\ workqueue.failures[<<Namespace, "a">>] = 0
    /\ <<Namespace, "a">> \notin workqueue.dirty \cup workqueue.processing

(***************************************************************************)
(* C14.  An add or update event of a Release, InstallationTarget,          *)
(* CapacityTarget or TrafficTarget that concerns an Installed release      *)
(* whose contender annotation names a release of the cache enqueues the    *)
(* contender's key, and never the Installed release's own key.             *)
(***************************************************************************)
\* The step is an add or update event that concerns release rel.
EventOf(rel) ==
    \/ ReleaseAdded(rel)
    \/ ReleaseUpdated(rel)
    \/ /\ rel \in releasesLister
       /\ \E kind \in TargetKinds : TargetAddedOrUpdated(kind, rel.name)

\* The step is one of the events that reach enqueueRelease for an installed
\* release: the add of the release, or the add or update of one of its targets.
RedirectingEventOf(rel) ==
    \/ ReleaseAdded(rel)
    \/ /\ rel \in releasesLister
       /\ \E kind \in TargetKinds : TargetAddedOrUpdated(kind, rel.name)

InstalledWithContender(rel) ==
    /\ rel.phase = "Installed"
    /\ rel.contender # NoAnn
    /\ GetRelease(releasesLister', rel.namespace, rel.contender) # {}

C14_InstalledEnqueuesContender ==
    [][\A rel \in ReleaseObjs :
          (EventStep /\ InstalledWithContender(rel) /\ EventOf(rel)) =>
              /\ Enqueued(<<rel.namespace, rel.contender>>)
              /\ ~Enqueued(<<rel.namespace, rel.name>>)]_vars

\* What holds: the add of an Installed release and the events of its targets
\* enqueue the contender when the contender is in a strategy phase and
\* nothing otherwise, the update of an Installed release enqueues nothing,
\* and the Installed release's own key is never enqueued.
C14_InstalledEnqueuesWorkingContender ==
    [][\A rel \in ReleaseObjs :
          /\ (EventStep /\ InstalledWithContender(rel) /\ RedirectingEventOf(rel)) =>
                 /\ Enqueued(<<rel.namespace, rel.contender>>)
                        <=> \E c \in GetRelease(releasesLister', rel.namespace, rel.contender) :
                               c.phase \in StrategyPhases
                 /\ ~Enqueued(<<rel.namespace, rel.name>>)
          /\ (EventStep /\ rel.phase = "Installed" /\ ReleaseUpdated(rel)) =>
                 workqueue' = workqueue]_vars

\* Three events, the add of b, the add of the Installed release a that names
\* b as its contender and the add of a target of a, each enqueued b.
C14_Witness ==
    /\ events = 3
    /\ \E r \in releasesLister :
           r.name = "a" /\ r.phase = "Installed" /\ r.contender = "b"
    /\ \E r \in releasesLister : r.name = "b" /\ r.phase \in StrategyPhases
    /\ \E kind \in TargetKinds : "a" \in targetsListers[kind]
    /\ \A kind \in TargetKinds : "b" \notin targetsListers[kind]
    /\ workqueue.failures[<<Namespace, "b">>] = 3

(***************************************************************************)
(* C15.  After the stop signal Run returns only once the queue is drained  *)
(* and the workers have finished: in the state in which Run has just       *)
(* returned no worker is syncing a key and no key is pending in the queue. *)
(***************************************************************************)
\* The step in which the stop channel is closed and Run returns.
RunReturns == ~stopCh /\ stopCh'

C15_RunReturnsWhenDrained ==
    [][RunReturns =>
          /\ \A w \in Workers : workers'[w].pc \notin {"syncing", "deferred"}
          /\ workqueue'.queue = <<>>
          /\ workqueue'.dirty = {}]_vars

(***************************************************************************)
(* C16.  A missing incumbent is not an error of the reconcile: when the    *)
(* release being synced has all its targets and carries no incumbent       *)
(* annotation, or an annotation naming a release that is not in the cache  *)
(* or lacks a target, buildStrategy returns an Executor with a nil         *)
(* incumbent and the strategy is executed.                                 *)
(***************************************************************************)
ListerErrors ==
    {"ReleaseNotFound", "InstallationTargetNotFound", "CapacityTargetNotFound",
     "TrafficTargetNotFound"}

\* The incumbent of the release named name is missing.
MissingIncumbent(ns, name) ==
    \E rel \in GetRelease(releasesLister, ns, name) :
        \/ rel.incumbent = NoAnn
        \/ buildReleaseInfo(ns, rel.incumbent) # Nil

C16_MissingIncumbentIsNoError ==
    [][\A w \in Workers :
          (/\ workers[w].pc = "syncing" /\ workers'[w].pc = "deferred"
           /\ buildReleaseInfo(workers[w].key[1], workers[w].key[2]) = Nil
           /\ MissingIncumbent(workers[w].key[1], workers[w].key[2]))
              => workers'[w].err \notin ListerErrors]_vars

(***************************************************************************)
(* C17.  TargetObjectsForRelease returns the InstallationTarget, the       *)
(* TrafficTarget and the CapacityTarget of the release and a nil error iff *)
(* each of the three List calls succeeds and finds exactly one object      *)
(* carrying the release label; otherwise it returns no object and the      *)
(* first error met in the order InstallationTarget, TrafficTarget,         *)
(* CapacityTarget: the error of the List call, or                          *)
(* UnexpectedObjectCountFromSelector when the objects found are not one.   *)
(***************************************************************************)
KindOrder == <<"InstallationTarget", "TrafficTarget", "CapacityTarget">>

Matching(kind) ==
    Cardinality({i \in DOMAIN apiObjects[kind].items :
                    apiObjects[kind].items[i] = targetObjects.relName})

ExactlyOne(kind) == ~apiObjects[kind].listFails /\ Matching(kind) = 1

IsTargetOf(obj, kind) ==
    /\ obj.kind = kind
    /\ obj.release = targetObjects.relName
    /\ obj.name \in DOMAIN apiObjects[kind].items
    /\ apiObjects[kind].items[obj.name] = targetObjects.relName

C17_AllThreeOrFirstError ==
    targetObjects.state = "returned" =>
        IF \A kind \in ObjectKinds : ExactlyOne(kind)
        THEN /\ targetObjects.err = NoError
             /\ IsTargetOf(targetObjects.it, "InstallationTarget")
             /\ IsTargetOf(targetObjects.tt, "TrafficTarget")
             /\ IsTargetOf(targetObjects.ct, "CapacityTarget")
        ELSE LET first == CHOOSE i \in 1..3 :
                              /\ ~ExactlyOne(KindOrder[i])
                              /\ \A j \in 1..(i - 1) : ExactlyOne(KindOrder[j])
             IN  /\ targetObjects.it = NilObject
                 /\ targetObjects.tt = NilObject
                 /\ targetObjects.ct = NilObject
                 /\ targetObjects.err.kind = KindOrder[first]
                 /\ targetObjects.err.type =
                        IF apiObjects[KindOrder[first]].listFails THEN "ListError"
                        ELSE "UnexpectedObjectCountFromSelector"

\* One InstallationTarget, two TrafficTargets and a failing list of
\* CapacityTargets: the call returned the error of the TrafficTargets.
C17_Witness ==
    /\ targetObjects.state = "returned"
    /\ ExactlyOne("InstallationTarget")
    /\ ~apiObjects["TrafficTarget"].listFails /\ Matching("TrafficTarget") = 2
    /\ apiObjects["CapacityTarget"].listFails
    /\ targetObjects.err.type = "UnexpectedObjectCountFromSelector"

(***************************************************************************)
(* C18.  Writing a condition whose type, status, reason and message equal  *)
(* those stored is a no-op: SetReleaseCondition returns a nil diff and     *)
(* leaves the whole status as it was, the stored LastTransitionTime and    *)
(* the order of the conditions included; so Set(status, Get(status, T))    *)
(* leaves the status unchanged for every type T present.                   *)
(***************************************************************************)
TypesOf(st) == {st.conditions[i].type : i \in DOMAIN st.conditions}

SameContent(c1, c2) ==
    /\ c1.type = c2.type /\ c1.status = c2.status
    /\ c1.reason = c2.reason /\ c1.message = c2.message

C18_SameContentIsNoOp ==
    [][/\ \A condition \in ReleaseConditions :
             (/\ SetCondition(condition)
              /\ \E i \in DOMAIN releaseStatus.conditions :
                     SameContent(releaseStatus.conditions[i], condition))
                 => (releaseStatus' = releaseStatus /\ returnedDiff' = "nil")
       /\ \A t \in TypesOf(releaseStatus) :
             LET again == SetReleaseCondition(releaseStatus,
                                              GetReleaseCondition(releaseStatus, t))
             IN  again.status = releaseStatus /\ again.diffIsNil]_vars

\* Two conditions are stored, and the last call, which returned nil, was not
\* the one that stored either of them.
C18_Witness ==
    /\ Len(releaseStatus.conditions) = 2
    /\ setCalls = 3
    /\ returnedDiff = "nil"

(***************************************************************************)
(* C19.  The LastTransitionTime stored for a condition type changes only   *)
(* in a call that changes the status value of that type or first adds the  *)
(* type, and it becomes the time the new condition carries; a call that    *)
(* changes only the reason or the message keeps the time stored before.    *)
(***************************************************************************)
C19_TransitionTimeFollowsStatus ==
    [][\A condition \in ReleaseConditions :
          SetCondition(condition) =>
              LET old == GetReleaseCondition(releaseStatus, condition.type)
                  new == GetReleaseCondition(releaseStatus', condition.type)
              IN  /\ \A t \in TypesOf(releaseStatus) \ {condition.type} :
                         GetReleaseCondition(releaseStatus', t)
                             = GetReleaseCondition(releaseStatus, t)
                  /\ new.lastTransitionTime =
                         IF old = NilCondition \/ old.status # condition.status
                         THEN condition.lastTransitionTime
                         ELSE old.lastTransitionTime]_vars

\* A condition whose reason or message was changed, not its status, by a call
\* that carried another time: the condition stored keeps a time that the
\* calls made since cannot all have carried.
C19_Witness ==
    /\ setCalls = 2
    /\ returnedDiff = "diff"
    /\ Len(releaseStatus.conditions) = 1
    /\ releaseStatus.conditions[1].reason = "StepComplete"
    /\ releaseStatus.conditions[1].message = "message"
    /\ releaseStatus.conditions[1].lastTransitionTime = 1

(***************************************************************************)
(* C20.  After any sequence of SetReleaseCondition calls on a status that  *)
(* starts empty, the condition list holds at most one condition of each    *)
(* type, exactly one of every type ever set, and is sorted in ascending    *)
(* order of type.                                                          *)
(***************************************************************************)
OnePerType(st) ==
    \A i, j \in DOMAIN st.conditions :
        st.conditions[i].type = st.conditions[j].type => i = j

SortedByType(st) ==
    \A i, j \in DOMAIN st.conditions :
        i < j => ~TypeLess(st.conditions[j].type, st.conditions[i].type)

C20_OnePerTypeSorted ==
    [][\A condition \in ReleaseConditions :
          SetCondition(condition) =>
              /\ OnePerType(releaseStatus')
              /\ SortedByType(releaseStatus')
              /\ TypesOf(releaseStatus') = TypesOf(releaseStatus) \cup {condition.type}]_vars

\* The three types were set, the least one last, and one of them was set
\* again.
C20_Witness ==
    /\ setCalls = 4
    /\ Len(releaseStatus.conditions) = 3
    /\ releaseStatus.conditions[1].type = "Complete"
    /\ releaseStatus.conditions[3].type = "StrategyExecuted"
    /\ releaseStatus.conditions[1].lastTransitionTime
           > releaseStatus.conditions[3].lastTransitionTime

(***************************************************************************)
(* C21.  Across any sequence of reconciles of a release, with targetStep   *)
(* changed between reconciles or not, status.achievedStep of the release   *)
(* never decreases.                                                        *)
(***************************************************************************)
C21_AchievedStepNeverDecreases ==
    [][rollout'.status.achievedStep >= rollout.status.achievedStep]_vars

(***************************************************************************)
(* C22.  In every reconcile the executor emits a TrafficTarget patch, of   *)
(* the contender or of the incumbent, only if the capacity observed of the *)
(* contender, and of the incumbent when there is one, matches the          *)
(* declaration of the active step in every cluster; and a reconcile that   *)
(* emits a capacity patch emits no traffic patch.                          *)
(***************************************************************************)
Emitted(rec, kind) == \E i \in 1..Len(rec.results) : rec.results[i].kind = kind

CapacityConverged(ro) ==
    /\ \A c \in Clusters :
          ro.observed[<<"contender", "CapacityTarget">>][c]
              = Declared(ro, "contender", "CapacityTarget")
    /\ ro.hasIncumbent =>
          \A c \in Clusters :
              ro.observed[<<"incumbent", "CapacityTarget">>][c]
                  = Declared(ro, "incumbent", "CapacityTarget")

C22_TrafficOnlyWhenCapacityConverged ==
    [][(Emitted(reconcile', "TrafficTarget") => CapacityConverged(rollout))
       /\ ~(Emitted(reconcile', "CapacityTarget") /\ Emitted(reconcile', "TrafficTarget"))]_vars

\* A reconcile of a release with an incumbent has emitted a patch of the
\* incumbent's TrafficTarget.
C22_Witness ==
    /\ rollout.hasIncumbent
    /\ \E i \in 1..Len(reconcile.results) :
          /\ reconcile.results[i].kind = "TrafficTarget"
          /\ reconcile.results[i].name = "incumbent"

(***************************************************************************)
(* C23.  syncOne applies the executor's results one by one in the order    *)
(* returned; if resolving the client or submitting the patch fails for one *)
(* result, no later result of that reconcile is applied, the patches       *)
(* already applied are not rolled back, and syncOne returns that error;    *)
(* when the executor returns an empty result list no API call is made and  *)
(* syncOne returns nil.                                                    *)
(***************************************************************************)
\* The object a result patches is as the patch says.
Visible(ro, r) ==
    IF r.kind \in PatchedKinds
    THEN \A c \in Clusters : ro.spec[<<r.name, r.kind>>][c] = r.percent
    ELSE IF r.name = "contender"
    THEN ro.status = r.status
    ELSE ro.incumbentPhase = r.status.phase

\* The patches of a syncOne call that went through.
Succeeded(rec) ==
    IF rec.err = "PatchError" THEN Len(rec.calls) - 1 ELSE Len(rec.calls)

SyncOneReturns ==
    \E failAt \in 0..MaxResults, failKind \in {"ClientError", "PatchError"} :
        Reconcile(FALSE, failAt, failKind)

C23_ResultsAppliedInOrderUntilFailure ==
    [][SyncOneReturns =>
         /\ Len(reconcile'.calls) <= Len(reconcile'.results)
         /\ \A i \in 1..Len(reconcile'.calls) : reconcile'.calls[i] = i
         /\ reconcile'.err \in {Nil, "ClientError", "PatchError"}
         /\ (reconcile'.err = Nil) = (Succeeded(reconcile') = Len(reconcile'.results))
         /\ reconcile'.err = "PatchError" => Len(reconcile'.calls) >= 1
         /\ \A i \in 1..Len(reconcile'.results) :
               Visible(rollout', reconcile'.results[i]) = (i <= Succeeded(reconcile'))
         /\ \A i \in 1..Len(reconcile'.results) :
               ~Visible(rollout, reconcile'.results[i])
         /\ reconcile'.results = <<>> => rollout' = rollout]_vars

\* The first of two results was applied and the patch of the second failed.
C23_Witness ==
    /\ Len(reconcile.results) = 2
    /\ reconcile.calls = <<1, 2>>
    /\ reconcile.err = "PatchError"
    /\ Visible(rollout, reconcile.results[1])
    /\ ~Visible(rollout, reconcile.results[2])

(***************************************************************************)
(* C24.  Every item a worker obtains from the queue is marked Done exactly *)
(* once, after its sync has finished and before that worker obtains        *)
(* another item, whether the sync succeeded or failed; hence no key stays  *)
(* in the queue's processing set forever.  The processing set holds        *)
(* exactly the keys of the workers between Get and Done; a key leaves it   *)
(* only in the step of the worker that holds it and has finished its sync, *)
(* and that worker then holds no item; and a worker that holds an item can *)
(* always take its next step towards Done.                                 *)
(***************************************************************************)
Held == {workers[w].key : w \in {v \in Workers : InFlight(v)}}

C24_DoneOncePerItem ==
    [][/\ workqueue.processing = Held
       /\ workqueue'.processing = Held'
       /\ \A w \in Workers :
             /\ (workers[w].pc = "syncing" /\ workers'[w] # workers[w]) =>
                   (workers'[w].pc = "deferred" /\ workers'[w].key = workers[w].key
                    /\ workers[w].key \in workqueue'.processing)
             /\ (workers[w].pc = "deferred" /\ workers'[w] # workers[w]) =>
                   (~InFlight(w)' /\ workers[w].key \notin workqueue'.processing)
             /\ workers'[w].pc = "syncing" =>
                   (workers[w].pc \in {"ready", "syncing"})
             /\ InFlight(w) => ENABLED (WorkerSync(w) \/ WorkerDone(w))
       /\ \A k \in workqueue.processing \ workqueue'.processing :
             \E w \in Workers : workers[w].pc = "deferred" /\ workers[w].key = k
                                  /\ workers'[w] # workers[w]]_vars

\* A sync failed, its item was added again meanwhile, and Done has put it
\* back in the queue: the worker has returned and holds nothing.
C24_Witness ==
    /\ ~workqueue.shuttingDown
    /\ workqueue.processing = {}
    /\ workqueue.queue # <<>>
    /\ \E w \in Workers : workers[w].pc = "returned" /\ workers[w].key = NoKey

(***************************************************************************)
(* C25.  In SyncCluster the math-error branch is unreachable: for every    *)
(* release with fewer traffic pods than its target, missing = target -     *)
(* |traffic pods| is at most |idle pods|, the target being clamped to the  *)
(* release's own pod count, which is |traffic pods| + |idle pods|; so no   *)
(* run records a TargetClusterMathError.                                   *)
(***************************************************************************)
C25_NoMathError ==
    out.state = "returned" =>
        /\ \A i \in DOMAIN out.errors : out.errors[i].kind # "Math"
        /\ \A r \in Releases :
              (out.seen[r].listed /\ out.seen[r].trafficPods < out.seen[r].targetPods) =>
                  /\ out.seen[r].targetPods - out.seen[r].trafficPods <= out.seen[r].idlePods
                  /\ out.seen[r].releasePods
                        = out.seen[r].trafficPods + out.seen[r].idlePods

\* A release needed every one of its idle pods: missing = |idle pods|.
C25_Witness ==
    /\ out.state = "returned"
    /\ \E r \in Releases :
          /\ out.seen[r].listed
          /\ out.seen[r].idlePods > 0
          /\ out.seen[r].targetPods - out.seen[r].trafficPods = out.seen[r].idlePods

(***************************************************************************)
(* C26.  After RemoveReleaseCondition(status, T) returns, the caller's     *)
(* status holds no condition of type T (GetReleaseCondition(status, T)     *)
(* returns nil) and every condition of another type is unchanged.          *)
(***************************************************************************)
C26_RemovedConditionIsGone ==
    [][\A i \in DOMAIN ReleaseConditionTypes :
          RemoveCondition(ReleaseConditionTypes[i]) =>
              /\ GetReleaseCondition(releaseStatus', ReleaseConditionTypes[i]) = NilCondition
              /\ \A j \in DOMAIN ReleaseConditionTypes \ {i} :
                    GetReleaseCondition(releaseStatus', ReleaseConditionTypes[j])
                        = GetReleaseCondition(releaseStatus, ReleaseConditionTypes[j])]_vars

(***************************************************************************)
(* C27.  When TargetObjectsForRelease fails with                           *)
(* UnexpectedObjectCountFromSelector, the error names the kind whose count *)
(* was wrong and carries the number of objects found for that kind, for    *)
(* InstallationTarget, TrafficTarget and CapacityTarget alike, together    *)
(* with the expected count 1.                                              *)
(***************************************************************************)
C27_ErrorCarriesCountOfItsKind ==
    (targetObjects.state = "returned"
     /\ targetObjects.err.type = "UnexpectedObjectCountFromSelector") =>
        /\ targetObjects.err.kind \in ObjectKinds
        /\ Matching(targetObjects.err.kind) # 1
        /\ targetObjects.err.got = Matching(targetObjects.err.kind)
        /\ targetObjects.err.expected = 1

(***************************************************************************)
(* C1.  When the sync of a key fails, the worker adds the key to the work  *)
(* queue again (AddRateLimited), so that the key is handed to a worker     *)
(* again with no further informer event: after the step in which syncOne   *)
(* returned an error, the key waits for its delay or is marked dirty.      *)
(***************************************************************************)
C1_FailedSyncIsRequeued ==
    [][\A w \in Workers :
          (workers[w].pc = "syncing" /\ workers'[w].pc = "deferred"
           /\ workers'[w].err # Nil)
              => (workers[w].key \in workqueue'.waiting
                  \/ workers[w].key \in workqueue'.dirty)]_vars

====
